---- MODULE Spec2Model ----
(***************************************************************************)
(* PyScopeGrab: the serial command/ACK protocol of ScopeGrabber, the       *)
(* payload transfers that widen the read timeout, and the threaded SCPI    *)
(* server that shares one ScopeGrabber between its connections.            *)
(*                                                                         *)
(* Bytes are integers 0..255.  A Python exception is the string naming its *)
(* class; NoExc means that nothing was raised.                             *)
(***************************************************************************)
EXTENDS Integers, Sequences, FiniteSets, TLC

VARIABLES
    grabber,       \* _SCPIState._grabber: "None" or "grabber"
    factoryCalls,  \* how often the grabber factory was invoked
    opened,        \* _SCPIState._opened
    lock,          \* _SCPIState._lock: "free" or the thread that holds it
    port,          \* ScopeGrabber.port: NoPort or the serial.Serial object
    portOpens,     \* how often serial.Serial(...) opened the device
    initOK,        \* initialize_port has returned normally
    pc,            \* per thread: the statement it is at
    cmd,           \* per thread: the stripped command line being served
    op,            \* per thread: the ScopeGrabber method it is executing
    sc,            \* per thread: the arguments of its _send_command call
    loc,           \* per thread: the locals of the ScopeGrabber method
    exc,           \* per thread: the exception raised while serving cmd
    ret,           \* per thread: the value the ScopeGrabber method returned
    resp,          \* per thread: the response _dispatch returned
    nLines,        \* per connection: lines read so far
    nNonBlank,     \* per connection: lines read that were not blank
    nCmd,          \* per connection: lines handed to _dispatch
    out,           \* per connection: the commands answered, in write order
    ioOwner,       \* the thread whose command is using the transport
    overlap,       \* a transport call was made inside another thread's command
    ackIn,         \* _send_command alone: the bytes the device answers with
    ackMode,       \* _send_command alone: its 'timeout' argument
    ackOut,        \* _send_command alone: its outcome, or Pending
    fnName,        \* a helper function alone: which one is called
    fnArg,         \* a helper function alone: its argument
    fnOut          \* a helper function alone: <<>> or <<its result>>

sessVars == <<grabber, factoryCalls, opened, lock, port, portOpens, initOK>>
thVars   == <<pc, cmd, op, sc, loc, exc, ret, resp>>
connVars == <<nLines, nNonBlank, nCmd, out>>
histVars == <<ioOwner, overlap>>
ackVars  == <<ackIn, ackMode, ackOut>>
fnVars   == <<fnName, fnArg, fnOut>>
pureVars == <<ackVars, fnVars>>
vars     == <<sessVars, thVars, connVars, histVars, pureVars>>

-----------------------------------------------------------------------------
(* Bounds of the model *)

\* lines a client sends on one connection before it closes
MaxLines == 2
\* bytes the device sends in one reply line before its terminator
MaxLineLen == 5
\* the count of serial.Serial(...) opens stops here
MaxOpens == 2

-----------------------------------------------------------------------------
(* Program constants *)

CR == 13
DIGIT0 == 48
DIGIT9 == 57

NoExc == "NoExc"
NoPort == [state |-> "None", timeout |-> "None", baudrate |-> 0]
TimeoutNone == "None"
DefaultTimeout == "1.0"

PC_CMD == "PC19200,N,8,1"

-----------------------------------------------------------------------------
(* ScopeGrabber._send_command: the ACK decision, given what read(2) returned *)

Return(v) == [kind |-> "return", value |-> v, code |-> -1, log |-> ""]
RaiseOf(e, c, l) == [kind |-> "raise", value |-> e, code |-> c, log |-> l]

\* int(chr(b)): the decimal digit value, or -1 where int() raises ValueError
IntOfChr(b) == IF b \in DIGIT0..DIGIT9 THEN b - DIGIT0 ELSE -1

AckLog(code) ==
    CASE code = 1 -> "Command syntax error"
      [] code = 2 -> "Command execution error"
      [] code = 3 -> "Synchronization error"
      [] code = 4 -> "Communication error"
      [] OTHER    -> "Unknown error code"

\* the exception of the hard-mode branch for a short ACK
ShortAckError == RaiseOf("PortNotOpen", -1, "command acknowledgement timed out")

\* the terminator test of the ACK's second byte
AnyTerminator(ack) == TRUE
TerminatorOK(ack) == ack[2] = CR

\* the status code that is the success return
AckCodeOKUpTo4(code) == code \in 0..4
AckCodeOK(code) == code = 0

send_command(ack, timeout) ==
    IF Len(ack) # 2
    THEN IF timeout THEN ShortAckError ELSE Return("False")
    ELSE IF ~TerminatorOK(ack)
    THEN RaiseOf("ProtocolError", -1, "did not receive CR after acknowledgement code")
    ELSE LET code == IntOfChr(ack[1]) IN
         IF code = -1 THEN RaiseOf("ValueError", -1, "")
         ELSE IF AckCodeOK(code) THEN Return("None")
         ELSE RaiseOf("AckError", code, AckLog(code))

\* port.read(n) of a reply the device has stopped sending: at most n bytes
ReadN(reply, n) == SubSeq(reply, 1, IF Len(reply) < n THEN Len(reply) ELSE n)

-----------------------------------------------------------------------------
(* _send_command alone, over every reply of at most two bytes, in both modes *)

AckBytes == (DIGIT0..DIGIT9) \cup {CR, 10, 32, 88}
AckReplies == {<<>>} \cup {<<a>> : a \in AckBytes} \cup {<<a, b>> : a \in AckBytes, b \in AckBytes}
Pending == [kind |-> "pending", value |-> "", code |-> -1, log |-> ""]

NoThreads == <<>>

IdleSession ==
    /\ grabber = "None" /\ factoryCalls = 0 /\ opened = FALSE /\ lock = "free"
    /\ port = NoPort /\ portOpens = 0 /\ initOK = FALSE
    /\ pc = NoThreads /\ cmd = NoThreads /\ op = NoThreads /\ sc = NoThreads
    /\ loc = NoThreads /\ exc = NoThreads /\ ret = NoThreads /\ resp = NoThreads
    /\ nLines = NoThreads /\ nNonBlank = NoThreads /\ nCmd = NoThreads /\ out = NoThreads
    /\ ioOwner = "nobody" /\ overlap = FALSE

\* no helper function is being called on its own
NoFnCall == fnName = "none" /\ fnArg = <<>> /\ fnOut = <<>>
\* _send_command is not being called on its own
NoAckCall == ackIn = <<>> /\ ackMode = TRUE /\ ackOut = Pending

InitAck ==
    /\ IdleSession
    /\ NoFnCall
    /\ ackIn \in AckReplies
    /\ ackMode \in BOOLEAN
    /\ ackOut = Pending

SendCommandCall ==
    /\ ackOut = Pending
    /\ ackOut' = send_command(ReadN(ackIn, 2), ackMode)
    /\ UNCHANGED <<ackIn, ackMode, fnVars, sessVars, thVars, connVars, histVars>>

NextAck == SendCommandCall

SpecAck == InitAck /\ [][NextAck]_vars

-----------------------------------------------------------------------------
(* Threads, their locals, and the bookkeeping shared by every step *)

Main == "main"
Cli == "cli"
Conns == {"c1", "c2"}

FALLBACK_LEN == 7454
MAX_LEN == 65535
POWER_ON_BAUD == 1200
TARGET_BAUD == 19200

NoLocals ==
    [old_timeout |-> "unset", status |-> "unset", payload_len |-> 0, digits |-> <<>>,
     x |-> -1, ascii_len |-> <<>>, epson |-> "unset", crc_from_device |-> -1,
     reads |-> <<>>]
NoCall == [command |-> "", timeout |-> TRUE]
NoResp == <<>>
NoRet == "NoRet"

PayloadOps == {"get_screenshot_image", "wait_for_print_image"}

\* where control goes when the ScopeGrabber method op[t] raises
ExceptTarget(t) ==
    CASE op[t] \in PayloadOps -> "finally"
      [] op[t] = "initialize_port" /\ t = Main -> "eager_except"
      [] op[t] = "initialize_port" /\ t \in Conns -> "eo_except"
      [] OTHER -> "method_exit"

Goto(t, l) == pc' = [pc EXCEPT ![t] = l] /\ UNCHANGED exc
Raise(t, e) ==
    /\ pc' = [pc EXCEPT ![t] = ExceptTarget(t)]
    /\ exc' = [exc EXCEPT ![t] = e]

\* a call of the serial transport (open, write or read) made by thread t
TransportCall(t) ==
    /\ ioOwner' = t
    /\ overlap' = (overlap \/ ioOwner \notin {"nobody", t})
\* thread t has finished the command or the open it used the transport for
EndOfCommand(t) ==
    /\ ioOwner' = (IF ioOwner = t THEN "nobody" ELSE ioOwner)
    /\ UNCHANGED overlap

\* 'with self._lock:' entry (threading.Lock, not reentrant)
LockAcquireNoWait(t) == lock' = t
LockAcquire(t) == lock = "free" /\ lock' = t
\* 'with self._lock:' exit, on return
LockRelease == lock' = "free"
\* 'with self._lock:' exit when initialize_port raised inside it
ExceptKeepsLock == UNCHANGED lock
ExceptRelease == lock' = "free"

\* what the grabber steps never touch
GrabberFrame ==
    UNCHANGED <<grabber, factoryCalls, opened, lock, cmd, op, resp, connVars, pureVars>>

-----------------------------------------------------------------------------
(* ScopeGrabber.initialize_port and _send_command *)

\* ACKs the device sends, and what read(2) returns when the timeout expires
DevAcks == {<<DIGIT0, CR>>, <<DIGIT0 + 2, CR>>, <<DIGIT0, 88>>}
ShortAcks == {<<>>, <<DIGIT0>>}

\* a read can end short only when the port has a finite timeout
TimedOutReads(S) == IF port.timeout = TimeoutNone THEN {} ELSE S

\* serial.Serial(self.tty, 1200, timeout=timeout)
IpOpen(t) ==
    /\ pc[t] = "ip_open"
    /\ TransportCall(t)
    /\ \/ /\ port' = [state |-> "open", timeout |-> DefaultTimeout, baudrate |-> POWER_ON_BAUD]
          /\ portOpens' = IF portOpens < MaxOpens THEN portOpens + 1 ELSE portOpens
          /\ sc' = [sc EXCEPT ![t] = [command |-> PC_CMD, timeout |-> FALSE]]
          /\ Goto(t, "send")
       \/ /\ Raise(t, "SerialException")
          /\ UNCHANGED <<port, portOpens, sc>>
    /\ UNCHANGED <<initOK, loc, ret>>
    /\ GrabberFrame

\* where initialize_port returns to
IpCaller(t) ==
    IF t = Main THEN "eager_ok" ELSE IF t \in Conns THEN "eo_opened" ELSE "method_exit"

\* the statement after a _send_command call that returned v
AfterSend(t, v) ==
    CASE op[t] = "initialize_port" /\ ~sc[t].timeout ->
            /\ loc' = [loc EXCEPT ![t].status = v]
            /\ Goto(t, "ip_baud")
            /\ UNCHANGED initOK
      [] op[t] = "initialize_port" /\ sc[t].timeout ->
            /\ Goto(t, IpCaller(t))
            /\ initOK' = TRUE
            /\ loc' = [loc EXCEPT ![t] = NoLocals]
      [] op[t] = "get_screenshot_image" ->
            /\ Goto(t, "gs_header")
            /\ UNCHANGED <<loc, initOK>>
      [] OTHER ->
            /\ Goto(t, "read_line")
            /\ UNCHANGED <<loc, initOK>>

\* _send_command: write command + CR, read(2), decide on the ACK
Send(t) ==
    /\ pc[t] = "send"
    /\ IF port = NoPort
       THEN Raise(t, "AssertionError") /\ UNCHANGED <<loc, initOK, histVars>>
       ELSE /\ TransportCall(t)
            /\ \E ack \in DevAcks \cup TimedOutReads(ShortAcks) :
                 LET r == send_command(ReadN(ack, 2), sc[t].timeout) IN
                 IF r.kind = "raise"
                 THEN Raise(t, r.value) /\ UNCHANGED <<loc, initOK>>
                 ELSE AfterSend(t, r.value)
    /\ UNCHANGED <<port, portOpens, sc, ret>>
    /\ GrabberFrame

\* 'self.port.baudrate = 19200', then the hard resend if the soft one timed out
\* 'if status is False:'
ResendAlways(status) == TRUE
ResendNeeded(status) == status = "False"

IpBaud(t) ==
    /\ pc[t] = "ip_baud"
    /\ port' = [port EXCEPT !.baudrate = TARGET_BAUD]
    /\ IF ResendNeeded(loc[t].status)
       THEN /\ sc' = [sc EXCEPT ![t] = [command |-> PC_CMD, timeout |-> TRUE]]
            /\ Goto(t, "send")
            /\ UNCHANGED <<initOK, loc>>
       ELSE /\ Goto(t, IpCaller(t))
            /\ initOK' = TRUE
            /\ loc' = [loc EXCEPT ![t] = NoLocals]
            /\ UNCHANGED sc
    /\ UNCHANGED <<portOpens, ret, histVars>>
    /\ GrabberFrame

\* a read with timeout None of a device that has stopped sending never returns
BlockingReads == {"send", "read_line", "gs_header", "gs_payload", "gs_crc", "wp_scan", "wp_payload", "wp_crc"}

ReadBlocks(t) ==
    /\ pc[t] \in BlockingReads
    /\ port # NoPort
    /\ port.timeout = TimeoutNone
    /\ TransportCall(t)
    /\ Goto(t, "blocked")
    /\ UNCHANGED <<port, portOpens, initOK, sc, loc, ret>>
    /\ GrabberFrame

-----------------------------------------------------------------------------
(* _read_ascii_line and the two queries the server uses *)

\* some line of n bytes splits on ';' into exactly 6 fields
SixFieldsPossible(n) == n >= 5
\* some line of n bytes is accepted by float()
FloatPossible(n) == n >= 1

\* the line is complete: scpi_idn_string wants 6 fields (else ProtocolError),
\* query_measurement(numeric_only=True) applies float() (else ValueError)
AfterLine(t, n) ==
    IF op[t] = "scpi_idn_string"
    THEN \/ /\ SixFieldsPossible(n)
            /\ Goto(t, "method_exit")
            /\ ret' = [ret EXCEPT ![t] = "FLUKE,model,-,fw"]
         \/ Raise(t, "ProtocolError") /\ UNCHANGED ret
    ELSE \/ /\ FloatPossible(n)
            /\ Goto(t, "method_exit")
            /\ ret' = [ret EXCEPT ![t] = "float"]
         \/ Raise(t, "ValueError") /\ UNCHANGED ret

\* _read_ascii_line: read byte by byte up to CR; a read that returns nothing
\* within the timeout raises AckTimeout
ReadAsciiLine(t) ==
    /\ pc[t] = "read_line"
    /\ TransportCall(t)
    /\ \/ /\ port.timeout # TimeoutNone
          /\ Raise(t, "AckTimeout")
          /\ UNCHANGED ret
       \/ \E n \in 0..MaxLineLen : AfterLine(t, n)
    /\ UNCHANGED <<port, portOpens, initOK, sc, loc>>
    /\ GrabberFrame

-----------------------------------------------------------------------------
(* ScopeGrabber.get_screenshot_image *)

IsDigit(b) == b \in DIGIT0..DIGIT9
COMMA == 44

\* int(ascii_len.decode('ascii')) of 4 bytes: all digits, or a sign and three
\* digits, give the number; any other bytes of Headers give ValueError
PLUS == 43
MINUS == 45
ValueErr == -100000
Dec3(a, b, c) == 100 * (a - DIGIT0) + 10 * (b - DIGIT0) + (c - DIGIT0)
IntOfAscii4(h) ==
    IF \A i \in 1..4 : IsDigit(h[i])
    THEN 1000 * (h[1] - DIGIT0) + Dec3(h[2], h[3], h[4])
    ELSE IF h[1] \in {PLUS, MINUS} /\ \A i \in 2..4 : IsDigit(h[i])
    THEN (IF h[1] = MINUS THEN -1 ELSE 1) * Dec3(h[2], h[3], h[4])
    ELSE ValueErr

\* the 'except' fallback, then 'if payload_len <= 0 or payload_len > 65535'
PayloadLenNoFallback(h) == IntOfAscii4(h)
PayloadLen(h) ==
    LET n == IntOfAscii4(h) IN
    IF n = ValueErr THEN FALLBACK_LEN
    ELSE IF n <= 0 \/ n > MAX_LEN THEN FALLBACK_LEN ELSE n

\* length headers the device sends: "7454", "0003", "0000", "00x3", "-001",
\* "+003"
Headers ==
    { <<55, 52, 53, 52>>, <<48, 48, 48, 51>>, <<48, 48, 48, 48>>, <<48, 48, 120, 51>>,
      <<MINUS, 48, 48, 49>>, <<PLUS, 48, 48, 51>> }
\* the byte after the header: the comma, or anything else
Separators == {COMMA, 120}

\* the payloads the device sends, by what _generate_image makes of them: a
\* raster it decodes, or one cut off inside an ESC header (IndexError); and
\* the sum of their bytes modulo 256
Payloads == {"raster", "truncated"}
PayloadSum(p) == IF p = "raster" THEN 37 ELSE 27
Decodes(p) == p = "raster"
ImageOf(p) == IF p = "raster" THEN "image(raster)" ELSE "no image"
\* the checksum bytes the device sends after payload p: the right one, a wrong one
CrcBytes(p) == {PayloadSum(p), (PayloadSum(p) + 1) % 256}

\* 'if crc_from_device != self._calculate_checksum(epson): LOG.warning(...)'
CrcCheck(dev, calc) == IF dev # calc THEN "warning" ELSE "ok"

\* 'old_timeout = self.port.timeout', 'self.port.timeout = None', then 'QP'
GsEnter(t) ==
    /\ pc[t] = "gs_enter"
    /\ IF port = NoPort
       THEN /\ pc' = [pc EXCEPT ![t] = "method_exit"]
            /\ exc' = [exc EXCEPT ![t] = "AssertionError"]
            /\ UNCHANGED <<port, loc, sc>>
       ELSE /\ loc' = [loc EXCEPT ![t].old_timeout = port.timeout]
            /\ port' = [port EXCEPT !.timeout = TimeoutNone]
            /\ sc' = [sc EXCEPT ![t] = [command |-> "QP", timeout |-> TRUE]]
            /\ Goto(t, "send")
    /\ UNCHANGED <<portOpens, initOK, ret, histVars>>
    /\ GrabberFrame

\* read(4), read(1) (the byte is dropped), and the payload length the 4 bytes
\* stand for
GsHeader(t) ==
    /\ pc[t] = "gs_header"
    /\ TransportCall(t)
    /\ \E h \in Headers, sep \in Separators :
         /\ loc' = [loc EXCEPT ![t].ascii_len = h,
                                ![t].payload_len = PayloadLen(h),
                                ![t].reads = <<4, 1>>]
         /\ Goto(t, "gs_payload")
    /\ UNCHANGED <<port, portOpens, initOK, sc, ret>>
    /\ GrabberFrame

\* epson = read(payload_len); ascii_len is not used after this
GsPayload(t) ==
    /\ pc[t] = "gs_payload"
    /\ TransportCall(t)
    /\ \/ \E p \in Payloads :
            /\ loc' = [loc EXCEPT ![t].epson = p,
                                   ![t].ascii_len = <<>>,
                                   ![t].reads = Append(@, loc[t].payload_len)]
            /\ Goto(t, "gs_crc")
       \/ Raise(t, "SerialException") /\ UNCHANGED loc
    /\ UNCHANGED <<port, portOpens, initOK, sc, ret>>
    /\ GrabberFrame

\* the checksum byte, the comparison (a warning only) and the decoding: the
\* decoder returns the image, or raises IndexError on a truncated ESC header
GsCrc(t) ==
    /\ pc[t] = "gs_crc"
    /\ TransportCall(t)
    /\ \E crc \in CrcBytes(loc[t].epson) :
         /\ loc' = [loc EXCEPT ![t].crc_from_device = crc, ![t].reads = Append(@, 1)]
         /\ IF CrcCheck(crc, PayloadSum(loc[t].epson)) = "raise"
            THEN Raise(t, "ProtocolError") /\ UNCHANGED ret
            ELSE IF Decodes(loc[t].epson)
            THEN Goto(t, "finally") /\ ret' = [ret EXCEPT ![t] = ImageOf(loc[t].epson)]
            ELSE Raise(t, "IndexError") /\ UNCHANGED ret
    /\ UNCHANGED <<port, portOpens, initOK, sc>>
    /\ GrabberFrame

\* 'finally: self.port.timeout = old_timeout'
RestoreUnlessRaised(t) ==
    port' = IF exc[t] = NoExc THEN [port EXCEPT !.timeout = loc[t].old_timeout] ELSE port
RestoreTimeout(t) == port' = [port EXCEPT !.timeout = loc[t].old_timeout]

Finally(t) ==
    /\ pc[t] = "finally"
    /\ RestoreTimeout(t)
    /\ Goto(t, "method_exit")
    /\ UNCHANGED <<portOpens, initOK, sc, loc, ret, histVars>>
    /\ GrabberFrame

-----------------------------------------------------------------------------
(* ScopeGrabber.wait_for_print_image (src/scope_grabber.py) *)

MIN_PRINT_LEN == 1024

\* the names bound at module level in src/scope_grabber.py; DIGIT0 and DIGIT9
\* are bound in the class body, which a method's bare name does not see
ModuleNames ==
    {"annotations", "sys", "time", "logging", "Optional", "Tuple", "serial",
     "Image", "PngImagePlugin", "ScopeGrabber"}

\* bytes of the incoming print stream: a digit, the comma, a letter
ScanBytes == {DIGIT0 + 1, COMMA, 120}

DigitsValue(d) ==
    1000 * (d[1] - DIGIT0) + 100 * (d[2] - DIGIT0) + 10 * (d[3] - DIGIT0) + (d[4] - DIGIT0)

\* 'digits.append(x)', then 'if len(digits) > 4: digits.pop(0)'
PushDigit(d, x) == IF Len(d) + 1 > 4 THEN Tail(Append(d, x)) ELSE Append(d, x)

\* one pass of the 'while True' loop on byte x with window d, the names being
\* bound: the window it leaves, where it goes on, and the length it accepted
ScanNext(d, x) ==
    IF IsDigit(x)
    THEN [digits |-> PushDigit(d, x), to |-> "wp_scan", payload_len |-> 0]
    ELSE IF x = COMMA /\ Len(d) = 4
    THEN IF MIN_PRINT_LEN <= DigitsValue(d) /\ DigitsValue(d) <= MAX_LEN
         THEN [digits |-> d, to |-> "wp_payload", payload_len |-> DigitsValue(d)]
         ELSE [digits |-> <<>>, to |-> "wp_scan", payload_len |-> 0]
    ELSE [digits |-> <<>>, to |-> "wp_scan", payload_len |-> 0]

\* the same pass as a step of thread t
ScanByte(t, x) ==
    LET nx == ScanNext(loc[t].digits, x) IN
    /\ loc' = [loc EXCEPT ![t].digits = nx.digits, ![t].x = x,
                          ![t].payload_len = nx.payload_len]
    /\ Goto(t, nx.to)

WpEnter(t) ==
    /\ pc[t] = "wp_enter"
    /\ IF port = NoPort
       THEN /\ pc' = [pc EXCEPT ![t] = "method_exit"]
            /\ exc' = [exc EXCEPT ![t] = "AssertionError"]
            /\ UNCHANGED <<port, loc>>
       ELSE /\ loc' = [loc EXCEPT ![t].old_timeout = port.timeout, ![t].digits = <<>>]
            /\ port' = [port EXCEPT !.timeout = TimeoutNone]
            /\ Goto(t, "wp_scan")
    /\ UNCHANGED <<portOpens, initOK, sc, ret, histVars>>
    /\ GrabberFrame

\* the reads of wait_for_print_image: the scan loop, the payload, the checksum
WpRead(t) ==
    /\ pc[t] \in {"wp_scan", "wp_payload", "wp_crc"}
    /\ TransportCall(t)
    /\ \/ CASE pc[t] = "wp_scan" ->
                 /\ \E x \in ScanBytes :
                      IF "DIGIT0" \notin ModuleNames
                      THEN Raise(t, "NameError") /\ loc' = [loc EXCEPT ![t].x = x]
                      ELSE ScanByte(t, x)
                 /\ UNCHANGED ret
            [] pc[t] = "wp_payload" ->
                 /\ Goto(t, "wp_crc")
                 /\ UNCHANGED <<loc, ret>>
            [] pc[t] = "wp_crc" ->
                 /\ \/ Goto(t, "finally") /\ ret' = [ret EXCEPT ![t] = "image"]
                    \/ Raise(t, "IndexError") /\ UNCHANGED ret
                 /\ UNCHANGED loc
       \/ Raise(t, "SerialException") /\ UNCHANGED <<loc, ret>>
    /\ UNCHANGED <<port, portOpens, initOK, sc>>
    /\ GrabberFrame

GrabberStep(t) ==
    \/ IpOpen(t) \/ Send(t) \/ IpBaud(t) \/ ReadAsciiLine(t)
    \/ GsEnter(t) \/ GsHeader(t) \/ GsPayload(t) \/ GsCrc(t) \/ Finally(t)
    \/ ReadBlocks(t)

-----------------------------------------------------------------------------
(* scpi_server: _SCPIHandler.handle, _dispatch and _SCPIState *)

EOF == "<EOF>"
\* lines a client sends (without the newline): " " is a blank line, "<E9>" a
\* line whose only byte is the non-ASCII 0xE9
ClientLines == {"*IDN?", "*idn?", "HCOPY:DATA?", "MEAS:VOLT:DC?", "FOO", " ", "<E9>"}
IsBlank(l) == l = " "
TableCommands == {"*IDN?", "HCOPY:DATA?", "MEAS:VOLT:DC?"}

\* bytes.decode("ascii", errors="ignore"), str.strip() and str.upper() on
\* ClientLines
Decode(l) == IF l = "<E9>" THEN "" ELSE l
Strip(l) == IF l = " " THEN "" ELSE l
Upper(l) == IF l = "*idn?" THEN "*IDN?" ELSE l

\* the context word of the per-command 'except' in fn
ErrContext(up) ==
    CASE up = "*IDN?" -> "IDN"
      [] up = "HCOPY:DATA?" -> "HCOPY:DATA"
      [] up = "MEAS:VOLT:DC?" -> "MEAS:VOLT:DC"

\* the responses, as the words they are made of
ErrResponse(ctx, msg) == <<"ERR:", ctx, msg>>
UnrecognizedNone(raw) == NoResp
Unrecognized(raw) == <<"ERR:", "UNRECOGNIZED", raw>>
\* what fn makes of the value the ScopeGrabber method returned
FnValue(up, v) ==
    CASE up = "*IDN?" -> <<v>>
      [] up = "HCOPY:DATA?" -> <<"#", "binblock", v>>
      [] up = "MEAS:VOLT:DC?" -> <<"str", v>>

\* a dispatch that hands every command to with_grabber
AnyCommand(up) == TRUE

\* 'if up == "*IDN?"', 'if up == "HCOPY:DATA?"', 'if up == "MEAS:VOLT:DC?"'
IsTableCommand(up) == up \in TableCommands

Serving == pc[Main] = "serving"

HandlerFrame == UNCHANGED <<port, portOpens, initOK, pureVars>>

\* handle() reads a line; _dispatch looks the command up; for a table command
\* with_grabber starts with _ensure_open's unlocked 'if self._opened: return'
ReadLine(t) ==
    /\ Serving
    /\ pc[t] = "readline"
    /\ \E line \in ClientLines \cup {EOF} :
         IF line = EOF
         THEN /\ pc' = [pc EXCEPT ![t] = "closed"]
              /\ UNCHANGED <<cmd, resp, nLines, nNonBlank, nCmd>>
         ELSE /\ nLines[t] < MaxLines
              /\ nLines' = [nLines EXCEPT ![t] = @ + 1]
              /\ nNonBlank' = [nNonBlank EXCEPT ![t] = IF IsBlank(line) THEN @ ELSE @ + 1]
              /\ IF Strip(Decode(line)) = ""
                 THEN UNCHANGED <<pc, cmd, resp, nCmd>>
                 ELSE /\ cmd' = [cmd EXCEPT ![t] = Strip(Decode(line))]
                      /\ nCmd' = [nCmd EXCEPT ![t] = @ + 1]
                      /\ IF IsTableCommand(Upper(Strip(Decode(line))))
                         THEN /\ pc' = [pc EXCEPT ![t] =
                                          IF opened THEN "wg_acquire" ELSE "eo_acquire"]
                              /\ UNCHANGED resp
                         ELSE /\ pc' = [pc EXCEPT ![t] = "respond"]
                              /\ resp' = [resp EXCEPT ![t] = Unrecognized(Strip(Decode(line)))]
    /\ UNCHANGED <<grabber, factoryCalls, opened, lock, op, sc, loc, exc, ret, out, histVars>>
    /\ HandlerFrame

\* _ensure_open inside the lock: create the grabber if there is none; call
\* initialize_port if the flag is still unset, else leave the lock
\* a session made anew at every open attempt
AlwaysCreate(g) == TRUE

\* 'if self._grabber is None' in _ensure_open, 'if state._grabber is None'
\* in run_scpi_server: only then is the factory called
GrabberIsNone(g) == g = "None"

\* an open made by every command that found the flag unset before the lock
OpenRegardless(o) == TRUE

\* 'if not self._opened' inside the lock
NotYetOpened(o) == ~o

EoAcquire(t) ==
    /\ pc[t] = "eo_acquire"
    /\ LockAcquire(t)
    /\ IF GrabberIsNone(grabber)
       THEN grabber' = "grabber" /\ factoryCalls' = factoryCalls + 1
       ELSE UNCHANGED <<grabber, factoryCalls>>
    /\ IF NotYetOpened(opened)
       THEN /\ op' = [op EXCEPT ![t] = "initialize_port"]
            /\ pc' = [pc EXCEPT ![t] = "ip_open"]
       ELSE /\ pc' = [pc EXCEPT ![t] = "eo_skip"]
            /\ UNCHANGED op
    /\ UNCHANGED <<opened, cmd, sc, loc, exc, ret, resp, connVars, histVars>>
    /\ HandlerFrame

\* the flag was set by another thread in the meantime: leave the lock
EoSkip(t) ==
    /\ pc[t] = "eo_skip"
    /\ LockRelease
    /\ pc' = [pc EXCEPT ![t] = "wg_acquire"]
    /\ UNCHANGED <<grabber, factoryCalls, opened, cmd, op, sc, loc, exc, ret, resp, connVars, histVars>>
    /\ HandlerFrame

\* a lazy open that goes on to with_grabber with the lock still held
OpenedKeepsLock == UNCHANGED lock

\* the end of 'with self._lock:' in _ensure_open, before with_grabber's own
OpenedRelease == lock' = "free"

\* initialize_port returned: set the flag, leave the lock
EoOpened(t) ==
    /\ pc[t] = "eo_opened"
    /\ opened' = TRUE
    /\ OpenedRelease
    /\ EndOfCommand(t)
    /\ pc' = [pc EXCEPT ![t] = "wg_acquire"]
    /\ UNCHANGED <<grabber, factoryCalls, cmd, op, sc, loc, exc, ret, resp, connVars>>
    /\ HandlerFrame

\* _dispatch's 'except Exception' around with_grabber: an ERR:OPEN response
CloseOnOpenError(t) ==
    /\ pc' = [pc EXCEPT ![t] = "closed"]
    /\ UNCHANGED resp
DispatchExcept(t) ==
    /\ pc' = [pc EXCEPT ![t] = "respond"]
    /\ resp' = [resp EXCEPT ![t] = ErrResponse("OPEN", exc[t])]

\* initialize_port raised: RuntimeError leaves the lock and reaches _dispatch
EoExcept(t) ==
    /\ pc[t] = "eo_except"
    /\ ExceptRelease
    /\ EndOfCommand(t)
    /\ DispatchExcept(t)
    /\ UNCHANGED <<grabber, factoryCalls, opened, cmd, op, sc, loc, exc, ret, connVars>>
    /\ HandlerFrame

\* with_grabber: take the lock and call fn(self._grabber), which calls the
\* ScopeGrabber method of the command
WgAcquire(t) ==
    /\ pc[t] = "wg_acquire"
    /\ LockAcquire(t)
    /\ CASE Upper(cmd[t]) = "*IDN?" ->
              /\ op' = [op EXCEPT ![t] = "scpi_idn_string"]
              /\ sc' = [sc EXCEPT ![t] = [command |-> "ID", timeout |-> TRUE]]
              /\ pc' = [pc EXCEPT ![t] = "send"]
         [] Upper(cmd[t]) = "MEAS:VOLT:DC?" ->
              /\ op' = [op EXCEPT ![t] = "query_measurement"]
              /\ sc' = [sc EXCEPT ![t] = [command |-> "QM1,V", timeout |-> TRUE]]
              /\ pc' = [pc EXCEPT ![t] = "send"]
         [] Upper(cmd[t]) = "HCOPY:DATA?" ->
              /\ op' = [op EXCEPT ![t] = "get_screenshot_image"]
              /\ pc' = [pc EXCEPT ![t] = "gs_enter"]
              /\ UNCHANGED sc
    /\ UNCHANGED <<grabber, factoryCalls, opened, cmd, loc, exc, ret, resp, connVars, histVars>>
    /\ HandlerFrame

\* fn returns its value or, from its own 'except', an ERR: string; the
\* method's locals are gone, the lock is left and _dispatch returns that
\* response
FnReturn(t) ==
    /\ t \in Conns
    /\ pc[t] = "method_exit"
    /\ resp' = [resp EXCEPT ![t] =
                  IF exc[t] # NoExc
                  THEN ErrResponse(ErrContext(Upper(cmd[t])), exc[t])
                  ELSE FnValue(Upper(cmd[t]), ret[t])]
    /\ LockRelease
    /\ EndOfCommand(t)
    /\ pc' = [pc EXCEPT ![t] = "respond"]
    /\ loc' = [loc EXCEPT ![t] = NoLocals]
    /\ UNCHANGED <<grabber, factoryCalls, opened, cmd, op, sc, exc, ret, connVars>>
    /\ HandlerFrame

\* the handler's locals once the response is out
Forget(t) ==
    /\ cmd' = [cmd EXCEPT ![t] = ""]
    /\ op' = [op EXCEPT ![t] = "none"]
    /\ sc' = [sc EXCEPT ![t] = NoCall]
    /\ loc' = [loc EXCEPT ![t] = NoLocals]
    /\ exc' = [exc EXCEPT ![t] = NoExc]
    /\ ret' = [ret EXCEPT ![t] = NoRet]
    /\ resp' = [resp EXCEPT ![t] = NoResp]

\* handle(): 'if resp is None: continue', else write the response and flush;
\* a write that fails ends the connection
Respond(t) ==
    /\ pc[t] = "respond"
    /\ IF resp[t] = NoResp
       THEN /\ pc' = [pc EXCEPT ![t] = "readline"]
            /\ UNCHANGED out
       ELSE \/ /\ out' = [out EXCEPT ![t] = Append(@, nCmd[t])]
               /\ pc' = [pc EXCEPT ![t] = "readline"]
            \/ /\ pc' = [pc EXCEPT ![t] = "closed"]
               /\ UNCHANGED out
    /\ Forget(t)
    /\ UNCHANGED <<grabber, factoryCalls, opened, lock, nLines, nNonBlank, nCmd, histVars>>
    /\ HandlerFrame

-----------------------------------------------------------------------------
(* run_scpi_server: the eager open, before the server accepts connections *)

EagerStart ==
    /\ pc[Main] = "boot"
    /\ IF GrabberIsNone(grabber)
       THEN grabber' = "grabber" /\ factoryCalls' = factoryCalls + 1
       ELSE UNCHANGED <<grabber, factoryCalls>>
    /\ op' = [op EXCEPT ![Main] = "initialize_port"]
    /\ pc' = [pc EXCEPT ![Main] = "ip_open"]
    /\ UNCHANGED <<opened, lock, cmd, sc, loc, exc, ret, resp, connVars, histVars>>
    /\ HandlerFrame

\* 'state._opened = True', then serve_forever
EagerOk ==
    /\ pc[Main] = "eager_ok"
    /\ opened' = TRUE
    /\ EndOfCommand(Main)
    /\ pc' = [pc EXCEPT ![Main] = "serving"]
    /\ op' = [op EXCEPT ![Main] = "none"]
    /\ sc' = [sc EXCEPT ![Main] = NoCall]
    /\ UNCHANGED <<grabber, factoryCalls, lock, cmd, loc, exc, ret, resp, connVars>>
    /\ HandlerFrame

\* 'except Exception': a warning, then serve_forever
EagerExcept ==
    /\ pc[Main] = "eager_except"
    /\ EndOfCommand(Main)
    /\ pc' = [pc EXCEPT ![Main] = "serving"]
    /\ op' = [op EXCEPT ![Main] = "none"]
    /\ sc' = [sc EXCEPT ![Main] = NoCall]
    /\ loc' = [loc EXCEPT ![Main] = NoLocals]
    /\ exc' = [exc EXCEPT ![Main] = NoExc]
    /\ UNCHANGED <<grabber, factoryCalls, opened, lock, cmd, ret, resp, connVars>>
    /\ HandlerFrame

-----------------------------------------------------------------------------
(* The server: one main thread, one handler thread per connection *)

ServerThreads == Conns \cup {Main}

Init ==
    /\ grabber = "None" /\ factoryCalls = 0 /\ opened = FALSE /\ lock = "free"
    /\ port = NoPort /\ portOpens = 0 /\ initOK = FALSE
    /\ pc = [t \in ServerThreads |-> IF t = Main THEN "boot" ELSE "readline"]
    /\ cmd = [t \in ServerThreads |-> ""]
    /\ op = [t \in ServerThreads |-> "none"]
    /\ sc = [t \in ServerThreads |-> NoCall]
    /\ loc = [t \in ServerThreads |-> NoLocals]
    /\ exc = [t \in ServerThreads |-> NoExc]
    /\ ret = [t \in ServerThreads |-> NoRet]
    /\ resp = [t \in ServerThreads |-> NoResp]
    /\ nLines = [t \in Conns |-> 0]
    /\ nNonBlank = [t \in Conns |-> 0]
    /\ nCmd = [t \in Conns |-> 0]
    /\ out = [t \in Conns |-> <<>>]
    /\ ioOwner = "nobody" /\ overlap = FALSE
    /\ NoAckCall /\ NoFnCall

HandlerStep(t) ==
    \/ ReadLine(t) \/ EoAcquire(t) \/ EoSkip(t) \/ EoOpened(t) \/ EoExcept(t)
    \/ WgAcquire(t) \/ FnReturn(t) \/ Respond(t)

MainStep == EagerStart \/ EagerOk \/ EagerExcept

ThreadStep(t) ==
    IF t = Main THEN MainStep \/ GrabberStep(Main) ELSE HandlerStep(t) \/ GrabberStep(t)

Next ==
    \/ MainStep
    \/ \E t \in Conns : HandlerStep(t)
    \/ \E t \in ServerThreads : GrabberStep(t)

Spec == Init /\ [][Next]_vars

\* every runnable thread is eventually scheduled
FairSpec == Spec /\ \A t \in ServerThreads : WF_vars(ThreadStep(t))

-----------------------------------------------------------------------------
(* The server until it is interrupted *)

\* ScopeGrabber.close: 'if self.port and self.port.is_open: self.port.close()'
ClosePort(p) == IF p.state = "open" THEN [p EXCEPT !.state = "closed"] ELSE p

\* Ctrl+C while serve_forever runs: 'except KeyboardInterrupt', the close of
\* the 'finally', the end of the 'with' (the handler threads are daemon
\* threads, nobody waits for them) and the return of run_scpi_server, after
\* which the process ends and its threads with it
Interrupt ==
    /\ pc[Main] = "serving"
    /\ port' = (IF grabber # "None" THEN ClosePort(port) ELSE port)
    /\ pc' = [t \in ServerThreads |-> IF t = Main THEN "stopped" ELSE "exited"]
    /\ cmd' = [t \in ServerThreads |-> ""]
    /\ op' = [t \in ServerThreads |-> "none"]
    /\ sc' = [t \in ServerThreads |-> NoCall]
    /\ loc' = [t \in ServerThreads |-> NoLocals]
    /\ exc' = [t \in ServerThreads |-> NoExc]
    /\ ret' = [t \in ServerThreads |-> NoRet]
    /\ resp' = [t \in ServerThreads |-> NoResp]
    /\ UNCHANGED <<grabber, factoryCalls, opened, lock, portOpens, initOK>>
    /\ UNCHANGED <<connVars, histVars, pureVars>>

NextShutdown ==
    \/ Next
    \/ Interrupt

SpecShutdown == Init /\ [][NextShutdown]_vars

-----------------------------------------------------------------------------
(* The programs that own their ScopeGrabber: the command line and the GUI's
   GrabWorker; one thread, one run after the other *)

\* 'grab.initialize_port()'
CliStart ==
    /\ pc[Cli] = "start"
    /\ op' = [op EXCEPT ![Cli] = "initialize_port"]
    /\ pc' = [pc EXCEPT ![Cli] = "ip_open"]
    /\ UNCHANGED <<sessVars, cmd, sc, loc, exc, ret, resp, connVars, histVars, pureVars>>

\* '--wait' calls wait_for_print_image, then '--grab' calls get_screenshot_image
CliCall ==
    /\ pc[Cli] = "idle"
    /\ \E o \in PayloadOps :
         /\ o = "wait_for_print_image" => cmd[Cli] = ""
         /\ cmd[Cli] # "get_screenshot_image"
         /\ op' = [op EXCEPT ![Cli] = o]
         /\ cmd' = [cmd EXCEPT ![Cli] = o]
         /\ pc' = [pc EXCEPT ![Cli] =
                      IF o = "wait_for_print_image" THEN "wp_enter" ELSE "gs_enter"]
    /\ loc' = [loc EXCEPT ![Cli] = NoLocals]
    /\ ret' = [ret EXCEPT ![Cli] = NoRet]
    /\ UNCHANGED <<sessVars, sc, exc, resp, connVars, histVars, pureVars>>

\* the method returned, or its exception ends the program
CliReturn ==
    /\ pc[Cli] = "method_exit"
    /\ pc' = [pc EXCEPT ![Cli] = IF exc[Cli] # NoExc THEN "exited" ELSE "idle"]
    /\ EndOfCommand(Cli)
    /\ UNCHANGED <<sessVars, cmd, op, sc, loc, exc, ret, resp, connVars, pureVars>>

\* on_grab starts the next GrabWorker, with a new ScopeGrabber (port None); the
\* previous run's port was closed by grab.close() or by the end of its process
NewWorker ==
    /\ pc[Cli] = "exited"
    /\ portOpens < MaxOpens
    /\ port' = NoPort
    /\ initOK' = FALSE
    /\ pc' = [pc EXCEPT ![Cli] = "start"]
    /\ cmd' = [cmd EXCEPT ![Cli] = ""]
    /\ op' = [op EXCEPT ![Cli] = "none"]
    /\ sc' = [sc EXCEPT ![Cli] = NoCall]
    /\ loc' = [loc EXCEPT ![Cli] = NoLocals]
    /\ exc' = [exc EXCEPT ![Cli] = NoExc]
    /\ ret' = [ret EXCEPT ![Cli] = NoRet]
    /\ UNCHANGED <<grabber, factoryCalls, opened, lock, portOpens, resp, connVars, histVars, pureVars>>

InitLocal ==
    /\ grabber = "grabber" /\ factoryCalls = 1 /\ opened = FALSE /\ lock = "free"
    /\ port = NoPort /\ portOpens = 0 /\ initOK = FALSE
    /\ pc = [t \in {Cli} |-> "start"]
    /\ cmd = [t \in {Cli} |-> ""]
    /\ op = [t \in {Cli} |-> "none"]
    /\ sc = [t \in {Cli} |-> NoCall]
    /\ loc = [t \in {Cli} |-> NoLocals]
    /\ exc = [t \in {Cli} |-> NoExc]
    /\ ret = [t \in {Cli} |-> NoRet]
    /\ resp = [t \in {Cli} |-> NoResp]
    /\ nLines = [t \in Conns |-> 0]
    /\ nNonBlank = [t \in Conns |-> 0]
    /\ nCmd = [t \in Conns |-> 0]
    /\ out = [t \in Conns |-> <<>>]
    /\ ioOwner = "nobody" /\ overlap = FALSE
    /\ NoAckCall /\ NoFnCall

NextLocal ==
    \/ CliStart \/ CliCall \/ CliReturn \/ NewWorker
    \/ IpOpen(Cli) \/ Send(Cli) \/ IpBaud(Cli)
    \/ GsEnter(Cli) \/ GsHeader(Cli) \/ GsPayload(Cli) \/ GsCrc(Cli)
    \/ WpEnter(Cli) \/ WpRead(Cli)
    \/ Finally(Cli) \/ ReadBlocks(Cli)

SpecLocal == InitLocal /\ [][NextLocal]_vars

-----------------------------------------------------------------------------
(* Properties of the SCPI server and of the payload transfers *)

\* thread t is inside a ScopeGrabber call, or in _ensure_open around one
SessionPcs ==
    {"ip_open", "send", "ip_baud", "read_line", "gs_enter", "gs_header",
     "gs_payload", "gs_crc", "finally", "method_exit", "blocked",
     "eo_opened", "eo_except", "eo_skip"}
InSession(t) == pc[t] \in SessionPcs
\* connection t has read a command line and not yet answered it
InCmd(t) == pc[t] \notin {"readline", "closed"}

\* C1: at most one thread is inside a session call at any time, and no
\* transport call of one thread falls between the transport calls another
\* thread makes for its command or for the lazy open.
C1_MutualExclusion ==
    /\ ~overlap
    /\ \A t, u \in ServerThreads : (t # u /\ InSession(t)) => ~InSession(u)
C1_Witness ==
    \E t, u \in Conns :
        /\ pc[t] = "gs_payload" /\ cmd[t] = "HCOPY:DATA?"
        /\ pc[u] = "wg_acquire" /\ cmd[u] = "MEAS:VOLT:DC?"

\* C2 (as the specification states it): the serial port is opened at most
\* once in the lifetime of the server, and a command that reached its session
\* call found exactly one open performed.
C2_OpenedOnce ==
    /\ portOpens <= 1
    /\ \A t \in Conns : pc[t] = "method_exit" => portOpens = 1

\* C3: a table command whose session call or lazy open raised is answered
\* with a response starting with 'ERR:'; the handler then reads the next
\* line, and a connection ends only at end-of-stream or when writing the
\* response fails.
C3_ErrResponse ==
    [][\A t \in Conns :
         /\ (pc[t] # "closed" /\ pc'[t] = "closed") => pc[t] \in {"readline", "respond"}
         /\ (pc[t] \in {"eo_except", "method_exit"} /\ exc[t] # NoExc /\ pc'[t] # pc[t])
               => (pc'[t] = "respond" /\ resp'[t] # NoResp /\ resp'[t][1] = "ERR:")
         /\ (pc[t] = "respond" /\ pc'[t] # "respond")
               => \/ pc'[t] = "closed"
                  \/ pc'[t] = "readline" /\ out'[t] = Append(out[t], nCmd[t])
      ]_vars
C3_Witness ==
    \E t \in Conns :
        /\ pc[t] = "respond" /\ nCmd[t] = 2 /\ out[t] = <<1>>
        /\ exc[t] = "ProtocolError"
        /\ resp[t] = ErrResponse("OPEN", "ProtocolError")

\* C4: once a command has finished (its response is ready or written, or its
\* connection has ended) its thread does not hold the session lock, also when
\* the session call or the lazy open raised; the main thread never holds it;
\* and the 'opened' flag is set only if an initialize_port call returned.
C4_LockFreeAfterCommand ==
    /\ \A t \in Conns : pc[t] \in {"respond", "readline", "closed"} => lock # t
    /\ lock # Main
    /\ opened => initOK
C4_Witness ==
    \E t \in Conns :
        /\ pc[t] = "respond" /\ exc[t] = "SerialException"
        /\ resp[t] = ErrResponse("OPEN", "SerialException")
        /\ lock = "free" /\ ~opened

\* C5: when get_screenshot_image or wait_for_print_image is left, by return
\* or by any exception, the port's read timeout is the one it had when the
\* call started; between calls the timeout is never the infinite one.
C5_TimeoutRestored ==
    \A t \in DOMAIN pc :
        /\ (pc[t] = "method_exit" /\ op[t] \in PayloadOps /\ port # NoPort)
              => (port.timeout = loc[t].old_timeout /\ port.timeout # TimeoutNone)
        /\ (pc[t] \in {"idle", "exited"} /\ port # NoPort) => port.timeout # TimeoutNone
C5_Witness ==
    /\ pc[Cli] = "method_exit" /\ op[Cli] = "get_screenshot_image"
    /\ exc[Cli] = "AckError"
    /\ loc[Cli].old_timeout = DefaultTimeout /\ port.timeout = DefaultTimeout

\* C6 (as the specification states it): every line that is not blank gets
\* exactly one response before the next line is read.
C6_OneResponsePerNonBlankLine ==
    \A t \in Conns : pc[t] = "readline" => Len(out[t]) = nNonBlank[t]

\* C6: on a connection the responses written are those of its commands
\* 1, 2, ... in that order, one per line that is not empty once its
\* non-ASCII bytes are dropped and it is stripped; when the handler reads the
\* next line every earlier command has been answered; a line that is empty
\* after decoding and stripping counts as a line but gets no response.
C6_OneResponsePerCommand ==
    \A t \in Conns :
        /\ \A i \in 1..Len(out[t]) : out[t][i] = i
        /\ pc[t] = "readline" => Len(out[t]) = nCmd[t]
        /\ InCmd(t) => Len(out[t]) = nCmd[t] - 1
        /\ pc[t] = "closed" => Len(out[t]) \in {nCmd[t] - 1, nCmd[t]}
        /\ nCmd[t] <= nNonBlank[t] /\ nNonBlank[t] <= nLines[t]
C6_Witness ==
    \E t, u \in Conns :
        /\ t # u
        /\ pc[t] = "readline" /\ nLines[t] = 2 /\ nNonBlank[t] = 2 /\ nCmd[t] = 1
        /\ out[t] = <<1>>
        /\ InCmd(u)

-----------------------------------------------------------------------------
(* Claims about _send_command (checked under SpecAck) *)

AckDone == ackOut # Pending
IsRaise(r, e) == r.kind = "raise" /\ r.value = e

\* C8: for a two-byte ACK ending in CR, _send_command returns normally only
\* for the status digit '0'; '1'..'4' raise AckError with that code and its
\* named message, '5'..'9' raise AckError with that code and the "Unknown
\* error code" message; the ACK "0X" raises ProtocolError.
C8_AckDecoding ==
    AckDone =>
      /\ (Len(ackIn) = 2 /\ ackIn[2] = CR) =>
            /\ ackOut.kind = "return" => (ackIn[1] = DIGIT0 /\ ackOut = Return("None"))
            /\ ackIn[1] = DIGIT0 => ackOut = Return("None")
            /\ ackIn[1] \in (DIGIT0 + 1)..(DIGIT0 + 4) =>
                  /\ IsRaise(ackOut, "AckError")
                  /\ ackOut.code = ackIn[1] - DIGIT0
                  /\ ackOut.log # "Unknown error code"
            /\ ackIn[1] \in (DIGIT0 + 5)..DIGIT9 =>
                  /\ IsRaise(ackOut, "AckError")
                  /\ ackOut.code = ackIn[1] - DIGIT0
                  /\ ackOut.log = "Unknown error code"
      /\ ackIn = <<DIGIT0, 88>> => IsRaise(ackOut, "ProtocolError")

C8_Witness == AckDone /\ ackIn = <<DIGIT9, CR>> /\ IsRaise(ackOut, "AckError")

\* C9: when fewer than 2 ACK bytes arrive, _send_command raises AckTimeout in
\* hard mode and returns False, raising nothing, in soft mode.
C9_ShortAck ==
    (AckDone /\ Len(ackIn) < 2) =>
        IF ackMode THEN IsRaise(ackOut, "AckTimeout") ELSE ackOut = Return("False")

\* C10: a two-byte ACK whose second byte is not CR raises ProtocolError in
\* soft and in hard mode, whatever its first byte is.
C10_MalformedAck ==
    (AckDone /\ Len(ackIn) = 2 /\ ackIn[2] # CR) => IsRaise(ackOut, "ProtocolError")

C10_Witness ==
    /\ AckDone /\ ~ackMode /\ ackIn = <<88, 10>>
    /\ IsRaise(ackOut, "ProtocolError")

\* C11 (as the specification states it): a two-byte ACK that ends in CR and
\* whose first byte is no ASCII digit raises AckError with the "Unknown error
\* code" message, as an unrecognized digit does.
C11_NonDigitIsUnknownCode ==
    (AckDone /\ Len(ackIn) = 2 /\ ackIn[2] = CR /\ ackIn[1] \notin DIGIT0..DIGIT9) =>
        (IsRaise(ackOut, "AckError") /\ ackOut.log = "Unknown error code")

-----------------------------------------------------------------------------
(* Claims about initialize_port (checked under SpecLocal) *)

\* thread t has left initialize_port, by return or by an exception
LeftInit(t) ==
    /\ op[t] = "initialize_port"
    /\ pc[t] \in {"method_exit", "eager_ok", "eager_except", "eo_opened", "eo_except"}
\* the soft attempt of the call was made (the port had been opened)
SoftAttemptMade(t) == sc[t].command = PC_CMD

\* C12 (as the specification states it): once the soft baud-upgrade attempt
\* has been made, initialize_port is left with the local rate at 19200,
\* whatever the attempt's outcome was.
C12_BaudSetAfterSoftAttempt ==
    \A t \in DOMAIN pc :
        (LeftInit(t) /\ SoftAttemptMade(t)) => port.baudrate = TARGET_BAUD

\* C13: initialize_port opens at 1200 and sends the command in soft mode at
\* that rate; only after the soft send returned does it set 19200; it resends,
\* in hard mode and at 19200, exactly when the soft send returned False; the
\* hard send is the last one, and after ACK 0 to the soft send there is none.
C13_InitOrder ==
    [][\A t \in DOMAIN pc :
         /\ (pc[t] = "ip_open" /\ pc'[t] = "send")
               => (port'.baudrate = POWER_ON_BAUD /\ ~sc'[t].timeout /\ sc'[t].command = PC_CMD)
         /\ (pc[t] = "send" /\ op[t] = "initialize_port" /\ ~sc[t].timeout /\ pc'[t] # pc[t])
               => /\ port.baudrate = POWER_ON_BAUD /\ port'.baudrate = POWER_ON_BAUD
                  /\ pc'[t] = "ip_baud" \/ exc'[t] # NoExc
         /\ (pc[t] = "ip_baud" /\ pc'[t] # pc[t])
               => /\ port'.baudrate = TARGET_BAUD
                  /\ (pc'[t] = "send") <=> (loc[t].status = "False")
                  /\ pc'[t] = "send" => (sc'[t].timeout /\ sc'[t].command = PC_CMD)
                  /\ pc'[t] # "send" => (LeftInit(t)' /\ exc'[t] = NoExc)
         /\ (pc[t] = "send" /\ op[t] = "initialize_port" /\ sc[t].timeout /\ pc'[t] # pc[t])
               => /\ port.baudrate = TARGET_BAUD /\ loc[t].status = "False"
                  /\ LeftInit(t)'
         /\ (pc'[t] = "send" /\ op'[t] = "initialize_port" /\ pc[t] # "send")
               => pc[t] \in {"ip_open", "ip_baud"}
      ]_vars
C13_Witness ==
    /\ pc[Cli] = "send" /\ op[Cli] = "initialize_port" /\ sc[Cli].timeout
    /\ loc[Cli].status = "False" /\ port.baudrate = TARGET_BAUD

-----------------------------------------------------------------------------
(* Claims about the payload transfers (checked under SpecLocal) *)

\* the reads a transfer has made after the ACK, as the sizes asked for
ReadsOf(t) == loc[t].reads
\* the payload length the 4 header bytes declare: their decimal value when it
\* lies in 1..65535, else 7454 ("7454", "0003", "+003"; else the fallback)
DeclaredLen(h) ==
    CASE h = <<55, 52, 53, 52>> -> 7454
      [] h = <<48, 48, 48, 51>> -> 3
      [] h = <<43, 48, 48, 51>> -> 3
      [] OTHER -> 7454
AckFailures == {"AckError", "ProtocolError", "PortNotOpen", "ValueError"}

\* C14: after the ACK to QP, get_screenshot_image reads 4 bytes, then 1 byte
\* (before and whatever the outcome of parsing the 4), then L bytes, then 1
\* byte, L being the header's decimal value if in 1..65535 and 7454
\* otherwise; when the ACK is not OK it reads none of them.
C14_ReadOrder ==
    \A t \in DOMAIN pc :
        op[t] = "get_screenshot_image" =>
            LET L == loc[t].payload_len IN
            /\ pc[t] \in {"gs_enter", "send", "gs_header"} => ReadsOf(t) = <<>>
            /\ pc[t] = "gs_payload" =>
                  (ReadsOf(t) = <<4, 1>> /\ L = DeclaredLen(loc[t].ascii_len))
            /\ pc[t] = "gs_crc" => (ReadsOf(t) = <<4, 1, L>> /\ L \in 1..MAX_LEN)
            /\ pc[t] \in {"finally", "method_exit"} =>
                  /\ ReadsOf(t) \in {<<>>, <<4, 1>>, <<4, 1, L, 1>>}
                  /\ exc[t] \in AckFailures => ReadsOf(t) = <<>>
                  /\ ret[t] # NoRet => ReadsOf(t) = <<4, 1, L, 1>>
C14_Witness ==
    /\ pc[Cli] = "gs_payload" /\ op[Cli] = "get_screenshot_image"
    /\ loc[Cli].ascii_len = <<48, 48, 120, 51>>
    /\ loc[Cli].payload_len = FALLBACK_LEN /\ ReadsOf(Cli) = <<4, 1>>

\* get_screenshot_image has read payload and checksum byte and is left with
\* the image of the payload, or with the decoder's error, whatever the
\* checksum byte was
ScreenshotIgnoresChecksum(t) ==
    (op[t] = "get_screenshot_image" /\ pc[t] \in {"finally", "method_exit"}
        /\ Len(ReadsOf(t)) = 4) =>
            IF Decodes(loc[t].epson)
            THEN exc[t] = NoExc /\ ret[t] = ImageOf(loc[t].epson)
            ELSE exc[t] = "IndexError"
\* wait_for_print_image is left with an image, or because the transport or
\* the decoder failed
PrintTransferSucceeds(t) ==
    (op[t] = "wait_for_print_image" /\ pc[t] = "method_exit" /\ port # NoPort) =>
        exc[t] \in {NoExc, "SerialException", "IndexError"}

\* C15 (as the specification states it): whatever the checksum byte is,
\* get_screenshot_image and wait_for_print_image return the image decoded
\* from the payload.
C15_ChecksumNeverFails ==
    \A t \in DOMAIN pc : ScreenshotIgnoresChecksum(t) /\ PrintTransferSucceeds(t)

\* ------------------------------------------------------------------
\* Helper functions called on their own (no session, no thread)
\* ------------------------------------------------------------------

\* longest payload of the exhaustive part
MaxPayloadLen == 4
\* length of the long single-valued payloads
LongLen == 40

\* byte values of the exhaustive payloads: both ends of the range and the
\* two values around the sign bit
ChecksumBytes == {0, 1, 128, 255}

RECURSIVE SeqsUpTo(_, _)
\* every sequence over S of length 0..n
SeqsUpTo(S, n) ==
    IF n = 0 THEN {<<>>}
    ELSE LET shorter == SeqsUpTo(S, n - 1)
         IN  shorter \cup {Append(q, b) : q \in {r \in shorter : Len(r) = n - 1}, b \in S}

\* payloads handed to _calculate_checksum
ChecksumPayloads ==
    SeqsUpTo(ChecksumBytes, MaxPayloadLen)
        \cup {[k \in 1..LongLen |-> b] : b \in {0, 255}}

\* checksum += byte, without the reduction that follows it
ChecksumStepNoWrap(checksum, byte) == checksum + byte

\* the loop body: checksum += byte; checksum %= 256
ChecksumStep(checksum, byte) == (checksum + byte) % 256

RECURSIVE ChecksumFrom(_, _, _)
\* the for loop over data, from its k-th byte on
ChecksumFrom(data, k, checksum) ==
    IF k > Len(data) THEN checksum
    ELSE ChecksumFrom(data, k + 1, ChecksumStep(checksum, data[k]))

\* ScopeGrabber._calculate_checksum
calculate_checksum(data) == ChecksumFrom(data, 1, 0)

RECURSIVE SumUpTo(_, _)
\* the plain sum of the first k bytes, never reduced
SumUpTo(data, k) == IF k = 0 THEN 0 ELSE SumUpTo(data, k - 1) + data[k]

\* sum(data)
SumBytes(data) == SumUpTo(data, Len(data))

\* longest incoming print stream
MaxStreamLen == 6

\* bytes of a print stream: the digits '0' and '9', the comma, a letter
StreamBytes == {DIGIT0, DIGIT9, COMMA, 120}

\* what the device sends after PRINT is pressed, as far as it is looked at
PrintStreams == SeqsUpTo(StreamBytes, MaxStreamLen)

\* where the scan of wait_for_print_image stands: the exception it raised,
\* the bytes it read, its window, the loop position and the accepted length
ScanResult(e, k, d, at, n) ==
    [exc |-> e, consumed |-> k, digits |-> d, to |-> at, payload_len |-> n]

RECURSIVE ScanFrom(_, _, _)
\* the 'while True' loop from the k-th byte of the stream on, window d; the
\* read of a byte the stream does not hold blocks (timeout None)
ScanFrom(stream, k, d) ==
    IF k > Len(stream) THEN ScanResult("none", Len(stream), d, "wp_scan", 0)
    ELSE IF "DIGIT0" \notin ModuleNames
    THEN ScanResult("NameError", k, d, "method_exit", 0)
    ELSE LET nx == ScanNext(d, stream[k]) IN
         IF nx.to = "wp_payload"
         THEN ScanResult("none", k, nx.digits, "wp_payload", nx.payload_len)
         ELSE ScanFrom(stream, k + 1, nx.digits)

\* the sync loop of ScopeGrabber.wait_for_print_image on a stream
wait_for_print_image(stream) == ScanFrom(stream, 1, <<>>)

\* ScopeGrabber._generate_image: the EPSON raster decoder

ESC == 27
STAR == 42
\* width and height of the image
IMG_SIZE == 240
\* first line group that is not drawn
LINE_LIMIT == 31

\* longest payload of the exhaustive part handed to the decoder
MaxPrnLen == 3

\* bytes of those payloads: the header bytes, the line feed, a data byte
PrnBytes == {ESC, STAR, CR, 1}

\* longer payloads that draw: a line feed, a header declaring a run, its data
PrnFixtures ==
    {<<CR, ESC, STAR, 0, 1, 0, 1>>, <<CR, ESC, STAR, 4, 1, 0, 1>>,
     <<CR, CR, ESC, STAR, 0, 2, 0, 129, 128>>}

PrnPayloads == SeqsUpTo(PrnBytes, MaxPrnLen) \cup PrnFixtures

\* Image.new('RGB', (240, 240), bg): no pixel has the foreground color yet
NewImage == [err |-> "none", size |-> <<IMG_SIZE, IMG_SIZE>>, fg |-> {}]

\* the locals of the decoder before the loop
DecoderStart ==
    [i |-> 0, graphmode |-> FALSE, graphlen |-> 0, line |-> 0, xcoord |-> 0,
     fg |-> {}, err |-> "none"]

\* prn[i] with Python's 0-based index
At(prn, i) == prn[i + 1]

\* c & (1 << j)
BitSet(c, j) == (c \div (2 ^ j)) % 2 = 1

\* a loop test reading one byte too many
MoreBytesInclusive(prn, i) == i <= Len(prn)

\* 'while i < len(prn)'
MoreBytes(prn, i) == i < Len(prn)

\* a row counted from 0 at the top of the first line group
RowZeroBased(line, j) == line * 8 - j - 1

\* '(line * 8) - j': the row of bit j in line group 'line'
Row(line, j) == line * 8 - j

\* a test of the line group alone
WriteGuardNoRowTest(line, j) == line > 0 /\ line < LINE_LIMIT

\* 'if (line > 0) and (line < 31) and (((line * 8) - j) < 240)'
WriteGuard(line, j) == line > 0 /\ line < LINE_LIMIT /\ Row(line, j) < IMG_SIZE

\* the pixels one data byte c sets
DataPixels(s, c) ==
    {<<s.xcoord, Row(s.line, j)>> : j \in {k \in 0..7 :
        BitSet(c, k) /\ WriteGuard(s.line, k)}}

\* one pass of the loop body; an index past the payload, or a pixel outside
\* the image, raises IndexError
DecodeStep(prn, s) ==
    IF s.i >= Len(prn) THEN [s EXCEPT !.err = "IndexError"]
    ELSE IF ~s.graphmode
    THEN IF At(prn, s.i) = ESC
         THEN IF s.i + 1 >= Len(prn) THEN [s EXCEPT !.err = "IndexError"]
              ELSE IF At(prn, s.i + 1) = STAR
              THEN IF s.i + 4 >= Len(prn) THEN [s EXCEPT !.err = "IndexError"]
                   ELSE [s EXCEPT !.graphlen = At(prn, s.i + 3) + At(prn, s.i + 4) * 256,
                                  !.graphmode = TRUE, !.xcoord = 0, !.i = s.i + 5]
              ELSE [s EXCEPT !.i = s.i + 2]
         ELSE IF At(prn, s.i) = CR
         THEN [s EXCEPT !.line = s.line + 1, !.i = s.i + 1]
         ELSE [s EXCEPT !.i = s.i + 1]
    ELSE LET px == DataPixels(s, At(prn, s.i)) IN
         IF px # {} /\ s.xcoord >= IMG_SIZE THEN [s EXCEPT !.err = "IndexError"]
         ELSE [s EXCEPT !.fg = s.fg \cup px,
                        !.graphlen = s.graphlen - 1,
                        !.graphmode = (s.graphlen - 1 # 0),
                        !.xcoord = s.xcoord + 1,
                        !.i = s.i + 1]

RECURSIVE DecodeRun(_, _)
\* the while loop from decoder state s on
DecodeRun(prn, s) ==
    IF s.err # "none" \/ ~MoreBytes(prn, s.i) THEN s
    ELSE DecodeRun(prn, DecodeStep(prn, s))

\* ScopeGrabber._generate_image with valid colors: the image, or the
\* exception the decoding raised
generate_image(prn) ==
    LET s == DecodeRun(prn, DecoderStart) IN
    [NewImage EXCEPT !.err = s.err, !.fg = s.fg]

\* the color of pixel (x, y) of an image
Pixel(img, x, y) == IF <<x, y>> \in img.fg THEN "fg" ELSE "bg"

\* _scpi_binblock and the write of a bytes response in _SCPIHandler.handle

HASH == 35
NEWLINE == 10

\* longest payload handed to _scpi_binblock
MaxBlockLen == 101

\* payloads of one repeated byte (a letter, the newline, '#'), and b"abc"
BlockPayloads ==
    {[k \in 1..n |-> b] : n \in 0..MaxBlockLen, b \in {97, NEWLINE, HASH}}
        \cup {<<97, 98, 99>>}

RECURSIVE Str(_)
\* str(n).encode("ascii") for n >= 0: the decimal digits, most significant first
Str(n) == IF n < 10 THEN <<DIGIT0 + n>> ELSE Append(Str(n \div 10), DIGIT0 + (n % 10))

RECURSIVE DecimalValue(_)
\* the number a sequence of ASCII digits denotes
DecimalValue(ds) ==
    IF ds = <<>> THEN 0
    ELSE 10 * DecimalValue(SubSeq(ds, 1, Len(ds) - 1)) + (ds[Len(ds)] - DIGIT0)

\* a length prefix that always announces one digit
LenPrefixOne(n_str) == Str(1)

\* str(len(n_str)).encode("ascii")
LenPrefix(n_str) == Str(Len(n_str))

\* _scpi_binblock
scpi_binblock(payload) ==
    LET n_str == Str(Len(payload))
        header == <<HASH>> \o LenPrefix(n_str) \o n_str
    IN  header \o payload

\* what handle() writes for a bytes response: the block, then b"\n"
WriteBytesResponse(block) == block \o <<NEWLINE>>

\* read_binblock of the client (src/scpi_client_pyvisa.py) on the bytes that
\* arrive on its connection

\* what follows a response on the connection: nothing, or the next byte sent
NextBytes == {<<>>, <<120>>}

\* a response to HCOPY:DATA? as the client's socket delivers it: the payload
\* the server answers with, what follows the response, and whether the byte
\* after the payload is there within the 50 ms the client waits for it
ClientInputs == [payload : BlockPayloads, next : NextBytes, in_time : BOOLEAN]

\* the outcome of read_binblock: the exception raised, the data returned and
\* the number of bytes taken from the connection
ClientResult(e, d, k) == [exc |-> e, data |-> d, consumed |-> k]

\* a reader that leaves the byte after the payload on the connection
KeepTrailing(stream, at, in_time) == at

\* 'inst.timeout = 50', 'extra = inst.read_bytes(1)', 'except Exception:
\* pass': one more byte is taken if it arrives in time, the timeout error of
\* the read is swallowed if not
EatTrailing(stream, at, in_time) ==
    IF in_time /\ at < Len(stream) THEN at + 1 ELSE at

\* read_binblock: '#', one digit, that many length digits, the payload, and
\* one trailing byte; read_bytes of more than the connection delivers ends in
\* the timeout error of the VISA layer
read_binblock(stream, in_time) ==
    IF Len(stream) < 2 THEN ClientResult("VisaIOError", <<>>, Len(stream))
    ELSE IF stream[1] # HASH THEN ClientResult("RuntimeError", <<>>, 2)
    ELSE LET ndigits == IntOfChr(stream[2]) IN
         IF ndigits = -1 THEN ClientResult("ValueError", <<>>, 2)
         ELSE IF ndigits <= 0 THEN ClientResult("RuntimeError", <<>>, 2)
         ELSE IF 2 + ndigits > Len(stream) THEN ClientResult("VisaIOError", <<>>, Len(stream))
         ELSE LET len_str == SubSeq(stream, 3, 2 + ndigits) IN
              IF \E k \in 1..ndigits : ~IsDigit(len_str[k])
              THEN ClientResult("ValueError", <<>>, 2 + ndigits)
              ELSE LET n == DecimalValue(len_str) IN
                   IF 2 + ndigits + n > Len(stream)
                   THEN ClientResult("VisaIOError", <<>>, Len(stream))
                   ELSE ClientResult("none",
                                     SubSeq(stream, 3 + ndigits, 2 + ndigits + n),
                                     EatTrailing(stream, 2 + ndigits + n, in_time))

\* _SCPIHandler.handle and _dispatch on the bytes of one received line

SPACE == 32
\* the byte 0xE9, outside ASCII
NON_ASCII == 233

\* "*IDN?", "HCOPY:DATA?" and "MEAS:VOLT:DC?" as ASCII codes
IDN_CMD == <<42, 73, 68, 78, 63>>
HCOPY_CMD == <<72, 67, 79, 80, 89, 58, 68, 65, 84, 65, 63>>
MEAS_CMD == <<77, 69, 65, 83, 58, 86, 79, 76, 84, 58, 68, 67, 63>>
\* "ERR:UNRECOGNIZED "
ERR_UNRECOGNIZED == <<69, 82, 82, 58, 85, 78, 82, 69, 67, 79, 71, 78, 73, 90, 69, 68, 32>>

\* str.lower() on ASCII text
LowerBytes(bs) == [k \in 1..Len(bs) |-> IF bs[k] >= 65 /\ bs[k] <= 90 THEN bs[k] + 32 ELSE bs[k]]

\* what a client may send between two newlines: the table commands in upper,
\* lower and mixed case, a command with an argument, unknown words, and
\* lines holding a byte outside ASCII
LineBodies ==
    {IDN_CMD, HCOPY_CMD, MEAS_CMD,
     LowerBytes(IDN_CMD), LowerBytes(HCOPY_CMD), LowerBytes(MEAS_CMD),
     <<42, 73, 100, 110, 63>>, <<77, 101, 97, 115, 58, 86, 111, 108, 116, 58, 100, 99, 63>>,
     IDN_CMD \o <<SPACE, 120>>, LowerBytes(IDN_CMD) \o <<SPACE, 88>>,
     MEAS_CMD \o <<SPACE, 49>>, IDN_CMD \o <<120>>, <<42, 73, 68, 78>>,
     <<70, 79, 79>>, <<70, 111, 111>>, <<70, 111, 111, 32, 66, 97, 114>>,
     <<NON_ASCII>>, <<70, NON_ASCII, 111>>, <<NON_ASCII>> \o IDN_CMD, <<>>}

\* the lines as readline() returns them: terminator included, spaces around
ReceivedLines ==
    {pre \o body \o post : pre \in {<<>>, <<SPACE>>}, body \in LineBodies,
                           post \in {<<NEWLINE>>, <<CR, NEWLINE>>, <<SPACE, 9, NEWLINE>>}}

RECURSIVE DecodeAscii(_)
\* bytes.decode("ascii", errors="ignore"): the bytes above 127 are dropped
DecodeAscii(bs) ==
    IF bs = <<>> THEN <<>>
    ELSE IF bs[1] > 127 THEN DecodeAscii(Tail(bs))
    ELSE <<bs[1]>> \o DecodeAscii(Tail(bs))

\* str.isspace() on one ASCII character
IsSpace(c) == c \in {9, 10, 11, 12, 13, 28, 29, 30, 31, SPACE}

RECURSIVE LStrip(_)
LStrip(bs) == IF bs # <<>> /\ IsSpace(bs[1]) THEN LStrip(Tail(bs)) ELSE bs

RECURSIVE RStrip(_)
RStrip(bs) ==
    IF bs # <<>> /\ IsSpace(bs[Len(bs)]) THEN RStrip(SubSeq(bs, 1, Len(bs) - 1)) ELSE bs

\* str.strip()
StripBytes(bs) == RStrip(LStrip(bs))

\* no case folding at all
NoUpper(bs) == bs

\* str.upper() on ASCII text
UpperBytes(bs) == [k \in 1..Len(bs) |-> IF bs[k] >= 97 /\ bs[k] <= 122 THEN bs[k] - 32 ELSE bs[k]]

\* the outcome of one line: nothing written, a table command entered, or a
\* text response written
NoResponse == [kind |-> "none", route |-> "none", text |-> <<>>]
TableRoute(name) == [kind |-> "table", route |-> name, text |-> <<>>]
\* (resp + "\n").encode("ascii", errors="ignore")
TextResponse(text) == [kind |-> "text", route |-> "none", text |-> DecodeAscii(text \o <<NEWLINE>>)]

\* _SCPIHandler._dispatch: the chain of 'if up == ...' and the final return
dispatch(raw) ==
    LET up == UpperBytes(raw) IN
    IF up = IDN_CMD THEN TableRoute("*IDN?")
    ELSE IF up = HCOPY_CMD THEN TableRoute("HCOPY:DATA?")
    ELSE IF up = MEAS_CMD THEN TableRoute("MEAS:VOLT:DC?")
    ELSE TextResponse(ERR_UNRECOGNIZED \o raw)

\* one pass of the loop of handle() on a line that is not the end of file
handle_line(line) ==
    LET stripped == StripBytes(DecodeAscii(line)) IN
    IF stripped = <<>> THEN NoResponse ELSE dispatch(stripped)

\* _read_ascii_line, read_identity_fields and query_measurement on the bytes
\* the device sends

SEMICOLON == 59
\* longest identity reply, terminator included
MaxReplyLen == 7
\* longest measurement reply, terminator included
MaxMeasLen == 5

\* how a query ends: returned or raised, the exception, the value as a list
\* of texts, the bytes written to the port and the bytes read from it
Outcome(k, e, v, w, c) == [kind |-> k, exc |-> e, value |-> v, written |-> w, consumed |-> c]

\* the index of the first CR of a stream, 0 if it has none
FirstCR(stream) ==
    IF \E i \in 1..Len(stream) : stream[i] = CR
    THEN CHOOSE i \in 1..Len(stream) :
            stream[i] = CR /\ \A j \in 1..(i - 1) : stream[j] # CR
    ELSE 0

\* a reader that gives back what it has when a read times out
TimeoutKeepsPartial(stream) ==
    [exc |-> "none", line |-> StripBytes(stream), consumed |-> Len(stream)]

\* the read that returns no byte: 'raise AckTimeout', the buffer is lost
TimeoutRaises(stream) ==
    [exc |-> "AckTimeout", line |-> <<>>, consumed |-> Len(stream)]

\* _read_ascii_line: port.read() byte by byte up to the first CR; a stream
\* that ends before it makes the next read time out; then
\* bytes(buf).decode("ascii").strip()
read_ascii_line(stream) ==
    LET at == FirstCR(stream) IN
    IF at = 0 THEN TimeoutRaises(stream)
    ELSE LET buf == SubSeq(stream, 1, at - 1) IN
         IF \E i \in 1..Len(buf) : buf[i] > 127
         THEN [exc |-> "UnicodeDecodeError", line |-> <<>>, consumed |-> at]
         ELSE [exc |-> "none", line |-> StripBytes(buf), consumed |-> at]

RECURSIVE Split(_, _)
\* str.split(sep) for a one-character separator
Split(bs, sep) ==
    IF \A i \in 1..Len(bs) : bs[i] # sep THEN <<bs>>
    ELSE LET at == CHOOSE i \in 1..Len(bs) :
                      bs[i] = sep /\ \A j \in 1..(i - 1) : bs[j] # sep
         IN  <<SubSeq(bs, 1, at - 1)>> \o Split(SubSeq(bs, at + 1, Len(bs)), sep)

\* [p.strip() for p in line.split(sep)]
StrippedParts(line, sep) ==
    LET parts == Split(line, sep) IN [k \in 1..Len(parts) |-> StripBytes(parts[k])]

\* command.encode('ascii') + CR, as _send_command writes it
CommandBytes(text) == text \o <<CR>>

\* a test that lets longer records pass
SixOrMoreParts(parts) == Len(parts) >= 6

\* 'if len(parts) != 6' does not fire
SixParts(parts) == Len(parts) = 6

\* read_identity_fields after the ACK of 'ID' (ACK 0): the reply is the line
read_identity_fields(reply) ==
    LET sent == CommandBytes(<<73, 68>>)
        r == read_ascii_line(reply)
    IN  IF r.exc # "none" THEN Outcome("raise", r.exc, <<>>, sent, r.consumed)
        ELSE LET parts == StrippedParts(r.line, SEMICOLON) IN
             IF SixParts(parts) THEN Outcome("return", "none", parts, sent, r.consumed)
             ELSE Outcome("raise", "ProtocolError", <<>>, sent, r.consumed)

\* float(text) succeeds, for stripped texts of digits and letters other than
\* those of 'nan' and 'inf': a non-empty run of digits
FloatParses(text) == text # <<>> /\ \A i \in 1..Len(text) : IsDigit(text[i])

\* a range test that lets every field pass
AnyField(field) == TRUE

\* 'if field < 1 or field > 12' does not fire
FieldInRange(field) == field >= 1 /\ field <= 12

\* f"QM{field}" + (",V" if numeric_only else "")
MeasCommand(field, numeric_only) ==
    <<81, 77>> \o Str(field) \o (IF numeric_only THEN <<COMMA, 86>> ELSE <<>>)

\* a parse that takes the middle field as it is
AnyThreeParts(parts) == Len(parts) = 3

\* 'if len(parts) != 3' does not fire and float(v) succeeds
ThreePartsWithFloat(parts) == Len(parts) = 3 /\ FloatParses(parts[2])

\* query_measurement on an open port: the range test (sys.exit(2)), the
\* command and its ACK, the line, and the parse of the line
query_measurement(field, numeric_only, ack, reply) ==
    IF ~FieldInRange(field) THEN Outcome("raise", "SystemExit", <<>>, <<>>, 0)
    ELSE LET sent == CommandBytes(MeasCommand(IF field < 0 THEN 0 ELSE field, numeric_only))
             a == send_command(ReadN(ack, 2), TRUE)
         IN  IF a.kind = "raise" THEN Outcome("raise", a.value, <<>>, sent, Len(ReadN(ack, 2)))
             ELSE LET r == read_ascii_line(reply)
                      n == 2 + r.consumed
                  IN  IF r.exc # "none" THEN Outcome("raise", r.exc, <<>>, sent, n)
                      ELSE IF numeric_only
                      THEN IF FloatParses(r.line)
                           THEN Outcome("return", "none", <<<<DecimalValue(r.line)>>>>, sent, n)
                           ELSE Outcome("raise", "ValueError", <<>>, sent, n)
                      ELSE LET parts == StrippedParts(r.line, COMMA) IN
                           IF Len(parts) # 3 THEN Outcome("raise", "ProtocolError", <<>>, sent, n)
                           ELSE IF ThreePartsWithFloat(parts)
                           THEN Outcome("return", "none",
                                        <<parts[1], <<DecimalValue(parts[2])>>, parts[3]>>, sent, n)
                           ELSE Outcome("raise", "ValueError", <<>>, sent, n)

\* replies to 'ID': every stream of ';', 'a' and CR, and some with spaces, a
\* byte outside ASCII, or bytes after the terminator
IdentityReplies ==
    SeqsUpTo({SEMICOLON, 97, CR}, MaxReplyLen)
        \cup {<<SPACE, 97, SPACE, SEMICOLON, 98, SEMICOLON, SEMICOLON, 99, SEMICOLON, 100, SEMICOLON, SPACE, CR, 101>>,
              <<97, SEMICOLON, NON_ASCII, SEMICOLON, 97, SEMICOLON, 97, SEMICOLON, 97, SEMICOLON, 97, CR>>,
              <<97, NON_ASCII, CR>>, <<NON_ASCII, 97>>, <<SPACE, 97, SPACE, CR>>}

\* replies to 'QM': every stream of ',', '1', 'a' and CR, and some with
\* spaces or a byte outside ASCII
MeasReplies ==
    SeqsUpTo({COMMA, DIGIT0 + 1, 97, CR}, MaxMeasLen)
        \cup {<<97, COMMA, SPACE, DIGIT0 + 1, DIGIT9, SPACE, COMMA, 86, CR>>,
              <<97, COMMA, NON_ASCII, COMMA, 86, CR>>, <<SPACE, DIGIT0 + 1, SPACE, CR>>}

\* calls of query_measurement: fields in and out of 1..12, both modes, a
\* good ACK before each reply, and a failing or missing ACK
MeasCalls ==
    {[field |-> f, numeric_only |-> v, ack |-> <<DIGIT0, CR>>, reply |-> r] :
        f \in {1, 12}, v \in BOOLEAN, r \in MeasReplies}
      \cup {[field |-> f, numeric_only |-> v, ack |-> a, reply |-> <<>>] :
              f \in {-1, 0, 1, 5, 12, 13}, v \in BOOLEAN,
              a \in {<<DIGIT0, CR>>, <<DIGIT0 + 1, CR>>, <<DIGIT0>>}}

InitFn ==
    /\ IdleSession
    /\ NoAckCall
    /\ \/ fnName = "_calculate_checksum" /\ fnArg \in ChecksumPayloads
       \/ fnName = "wait_for_print_image" /\ fnArg \in PrintStreams
       \/ fnName = "_generate_image" /\ fnArg \in PrnPayloads
       \/ fnName = "_scpi_binblock" /\ fnArg \in BlockPayloads
       \/ fnName = "_dispatch" /\ fnArg \in ReceivedLines
       \/ fnName = "_read_ascii_line" /\ fnArg \in IdentityReplies
       \/ fnName = "read_identity_fields" /\ fnArg \in IdentityReplies
       \/ fnName = "query_measurement" /\ fnArg \in MeasCalls
       \/ fnName = "read_binblock" /\ fnArg \in ClientInputs
    /\ fnOut = <<>>

CalculateChecksumCall ==
    /\ fnName = "_calculate_checksum"
    /\ fnOut = <<>>
    /\ fnOut' = <<calculate_checksum(fnArg)>>
    /\ UNCHANGED <<fnName, fnArg, ackVars, sessVars, thVars, connVars, histVars>>

WaitForPrintImageCall ==
    /\ fnName = "wait_for_print_image"
    /\ fnOut = <<>>
    /\ fnOut' = <<wait_for_print_image(fnArg)>>
    /\ UNCHANGED <<fnName, fnArg, ackVars, sessVars, thVars, connVars, histVars>>

GenerateImageCall ==
    /\ fnName = "_generate_image"
    /\ fnOut = <<>>
    /\ fnOut' = <<generate_image(fnArg)>>
    /\ UNCHANGED <<fnName, fnArg, ackVars, sessVars, thVars, connVars, histVars>>

\* a handler answers with the block of a payload
BinblockCall ==
    /\ fnName = "_scpi_binblock"
    /\ fnOut = <<>>
    /\ fnOut' = <<WriteBytesResponse(scpi_binblock(fnArg))>>
    /\ UNCHANGED <<fnName, fnArg, ackVars, sessVars, thVars, connVars, histVars>>

\* handle() reads a line and dispatches it
DispatchCall ==
    /\ fnName = "_dispatch"
    /\ fnOut = <<>>
    /\ fnOut' = <<handle_line(fnArg)>>
    /\ UNCHANGED <<fnName, fnArg, ackVars, sessVars, thVars, connVars, histVars>>

ReadAsciiLineCall ==
    /\ fnName = "_read_ascii_line"
    /\ fnOut = <<>>
    /\ fnOut' = <<read_ascii_line(fnArg)>>
    /\ UNCHANGED <<fnName, fnArg, ackVars, sessVars, thVars, connVars, histVars>>

ReadIdentityFieldsCall ==
    /\ fnName = "read_identity_fields"
    /\ fnOut = <<>>
    /\ fnOut' = <<read_identity_fields(fnArg)>>
    /\ UNCHANGED <<fnName, fnArg, ackVars, sessVars, thVars, connVars, histVars>>

QueryMeasurementCall ==
    /\ fnName = "query_measurement"
    /\ fnOut = <<>>
    /\ fnOut' = <<query_measurement(fnArg.field, fnArg.numeric_only, fnArg.ack, fnArg.reply)>>
    /\ UNCHANGED <<fnName, fnArg, ackVars, sessVars, thVars, connVars, histVars>>

\* the server answers HCOPY:DATA? with the block of a payload and the client
\* reads it with read_binblock
ReadBinblockCall ==
    /\ fnName = "read_binblock"
    /\ fnOut = <<>>
    /\ fnOut' = <<read_binblock(WriteBytesResponse(scpi_binblock(fnArg.payload)) \o fnArg.next,
                                fnArg.in_time)>>
    /\ UNCHANGED <<fnName, fnArg, ackVars, sessVars, thVars, connVars, histVars>>

NextFn ==
    \/ ReadBinblockCall
    \/ ReadAsciiLineCall
    \/ ReadIdentityFieldsCall
    \/ QueryMeasurementCall
    \/ DispatchCall
    \/ BinblockCall
    \/ CalculateChecksumCall
    \/ WaitForPrintImageCall
    \/ GenerateImageCall

SpecFn == InitFn /\ [][NextFn]_vars

FnDone(name) == fnName = name /\ fnOut # <<>>

\* C16: _calculate_checksum returns the sum of all the bytes modulo 256, a
\* value in 0..255: reducing after every byte gives what one reduction of
\* the full sum gives, and a payload of zeros gives 0 whatever its length.
C16_ChecksumIsSumMod256 ==
    FnDone("_calculate_checksum") =>
        /\ fnOut[1] = SumBytes(fnArg) % 256
        /\ fnOut[1] \in 0..255
        /\ (\A k \in 1..Len(fnArg) : fnArg[k] = 0) => fnOut[1] = 0

\* a payload whose plain sum passes 255 several times, and a long one of zeros
C16_Witness ==
    /\ FnDone("_calculate_checksum")
    /\ \/ SumBytes(fnArg) >= 512 /\ Len(fnArg) <= MaxPayloadLen
       \/ Len(fnArg) = LongLen /\ fnArg[1] = 0

\* the first n bytes of the stream are digits
DigitRun(stream, n) == Len(stream) >= n /\ \A k \in 1..n : IsDigit(stream[k])

\* the scan went past the k-th byte without accepting a marker there
ScannedPast(r, stream, k) ==
    /\ r.exc = "none"
    /\ \/ r.consumed > k
       \/ r.consumed = k /\ k = Len(stream) /\ r.to = "wp_scan"

\* C17: PrintSync ignores a digit run that no comma follows, and a fifth digit
\* in a row clears the window, so that five digits and a comma are not
\* accepted as a length marker: the scan goes on past that comma.
C17_FiveDigitsNotAccepted ==
    FnDone("wait_for_print_image") =>
        /\ ((DigitRun(fnArg, 5) /\ Len(fnArg) >= 6 /\ fnArg[6] = COMMA)
              => ScannedPast(fnOut[1], fnArg, 6))
        /\ ((DigitRun(fnArg, Len(fnArg)) /\ Len(fnArg) >= 1)
              => ScannedPast(fnOut[1], fnArg, Len(fnArg)))

\* C18: four buffered digits and a comma with a value outside [1024, 65535]
\* are rejected: no payload length is taken, the window is empty after the
\* comma, and the scan goes on with the byte after it.
C18_OutOfRangeRejected ==
    FnDone("wait_for_print_image") =>
        ((/\ DigitRun(fnArg, 4) /\ Len(fnArg) >= 5 /\ fnArg[5] = COMMA
          /\ ~(MIN_PRINT_LEN <= DigitsValue(SubSeq(fnArg, 1, 4))
                 /\ DigitsValue(SubSeq(fnArg, 1, 4)) <= MAX_LEN))
            => (/\ ScannedPast(fnOut[1], fnArg, 5)
                /\ (Len(fnArg) = 5
                      => (fnOut[1].digits = <<>> /\ fnOut[1].payload_len = 0))))

\* thread t reads one byte in the scan loop of wait_for_print_image
ScanStep(t) ==
    /\ pc[t] = "wp_scan"
    /\ pc'[t] # pc[t] \/ loc'[t] # loc[t]
    /\ exc'[t] # "SerialException"

\* C19: a step of the scan reads one byte and stays in the scan or goes on to
\* the payload, the window never holds more than 4 bytes, and a byte that is
\* neither a digit nor the comma completing a 4-digit window clears the
\* window and leaves the scan running.
C19_ScanStep ==
    [][\A t \in DOMAIN pc :
         ScanStep(t) =>
            /\ pc'[t] \in {"wp_scan", "wp_payload"}
            /\ Len(loc'[t].digits) <= 4
            /\ (~IsDigit(loc'[t].x) /\ ~(loc'[t].x = COMMA /\ Len(loc[t].digits) = 4))
                  => (pc'[t] = "wp_scan" /\ loc'[t].digits = <<>>)]_vars

\* C20: given an empty byte sequence the raster decoder returns an image of
\* 240 by 240 pixels, every one of them in the background color.
C20_EmptyPayloadIsBackground ==
    (FnDone("_generate_image") /\ fnArg = <<>>) =>
        /\ fnOut[1].err = "none"
        /\ fnOut[1].size = <<240, 240>>
        /\ \A x \in 0..239, y \in 0..239 : Pixel(fnOut[1], x, y) = "bg"

C20_Witness == FnDone("_generate_image") /\ fnArg = <<>> /\ fnOut[1].err = "none"

\* a CR that brings the line counter to 1, then ESC '*' m 1 0 and the byte 0x01
OneBitPayload(prn) ==
    /\ Len(prn) = 7
    /\ prn[1] = CR /\ prn[2] = ESC /\ prn[3] = STAR
    /\ prn[5] = 1 /\ prn[6] = 0 /\ prn[7] = 1

\* C21 as stated: with the line counter at 1, a 1-byte run holding 0x01 sets
\* exactly the pixel (0, 7).
C21_PixelColumn0Row7 ==
    (FnDone("_generate_image") /\ OneBitPayload(fnArg)) =>
        (fnOut[1].err = "none" /\ fnOut[1].fg = {<<0, 7>>})

\* C21 amended: with the line counter at 1, a 1-byte run holding 0x01 sets
\* exactly the pixel (0, 8), row = 1 * 8 - 0, and every other pixel keeps the
\* background color.
C21_PixelColumn0Row8 ==
    (FnDone("_generate_image") /\ OneBitPayload(fnArg)) =>
        /\ fnOut[1].err = "none"
        /\ \A x \in 0..239, y \in 0..239 :
              Pixel(fnOut[1], x, y) = (IF <<x, y>> = <<0, 8>> THEN "fg" ELSE "bg")
        /\ fnOut[1].fg \subseteq (0..239) \X (0..239)

C21_Witness ==
    /\ FnDone("_generate_image") /\ OneBitPayload(fnArg)
    /\ fnArg[4] = 4 /\ fnOut[1].fg # {}

\* the number of decimal digits of n
NumDigits(n) == IF n = 0 THEN 1 ELSE CHOOSE d \in 1..9 : 10 ^ (d - 1) <= n /\ n < 10 ^ d

\* C22: the bytes sent for a payload are '#', one ASCII digit giving the
\* number of decimal digits of the payload length, the length in decimal,
\* the payload unchanged, and one newline; b"abc" is sent as b"#13abc\n".
C22_BinblockFraming ==
    FnDone("_scpi_binblock") =>
        LET w == fnOut[1]
            n == Len(fnArg)
            d == NumDigits(n)
        IN  /\ Len(w) = 2 + d + n + 1
            /\ w[1] = HASH
            /\ w[2] = DIGIT0 + d
            /\ \A k \in 3..(2 + d) : IsDigit(w[k])
            /\ DecimalValue(SubSeq(w, 3, 2 + d)) = n
            /\ SubSeq(w, 3 + d, 2 + d + n) = fnArg
            /\ w[Len(w)] = NEWLINE
            /\ (fnArg = <<97, 98, 99>>) => (w = <<HASH, 49, 51, 97, 98, 99, NEWLINE>>)

\* a payload whose length has three digits and which itself holds newlines
C22_Witness ==
    /\ FnDone("_scpi_binblock")
    /\ Len(fnArg) >= 100 /\ fnArg[1] = NEWLINE
    /\ fnOut[1][2] = DIGIT0 + 3

\* the text before the first space of a text, the whole text if it has none
RECURSIVE BeforeFirstSpace(_)
BeforeFirstSpace(bs) ==
    IF bs = <<>> \/ bs[1] = SPACE THEN <<>>
    ELSE <<bs[1]>> \o BeforeFirstSpace(Tail(bs))

\* two ASCII texts equal up to the case of their letters
SameIgnoringCase(a, b) ==
    /\ Len(a) = Len(b)
    /\ \A k \in 1..Len(a) :
          \/ a[k] = b[k]
          \/ a[k] >= 65 /\ a[k] <= 90 /\ b[k] = a[k] + 32
          \/ b[k] >= 65 /\ b[k] <= 90 /\ a[k] = b[k] + 32

TableCommandBytes == {IDN_CMD, HCOPY_CMD, MEAS_CMD}
MatchesTable(bs) == \E c \in TableCommandBytes : SameIgnoringCase(bs, c)
RouteName(c) ==
    IF c = IDN_CMD THEN "*IDN?" ELSE IF c = HCOPY_CMD THEN "HCOPY:DATA?" ELSE "MEAS:VOLT:DC?"

\* the text the dispatcher is given for a line
CommandText(line) == StripBytes(DecodeAscii(line))

\* C23: a line that is not a table command, but whose text before the first
\* space is one (in any letter case), is dispatched to that command and not
\* answered with ERR:UNRECOGNIZED.
C23_FallbackBeforeSpace ==
    FnDone("_dispatch") =>
        \A c \in TableCommandBytes :
            (/\ ~MatchesTable(CommandText(fnArg))
             /\ SameIgnoringCase(BeforeFirstSpace(CommandText(fnArg)), c))
                => (fnOut[1].kind = "table" /\ fnOut[1].route = RouteName(c))

\* what the claim says of a line whose text is t
AnsweredAsText(r, t) ==
    /\ MatchesTable(t) =>
          (r.kind = "table" /\ \E c \in TableCommandBytes :
                                  SameIgnoringCase(t, c) /\ r.route = RouteName(c))
    /\ (t # <<>> /\ ~MatchesTable(t)) =>
          (r.kind = "text" /\ r.text = ERR_UNRECOGNIZED \o t \o <<NEWLINE>>)

\* C24 as stated: table commands match in any letter case, and every
\* non-blank line matching none is answered 'ERR:UNRECOGNIZED ' followed by
\* the received text, the text being the line without the white space around
\* it.
C24_UnrecognizedEchoesLine ==
    FnDone("_dispatch") => AnsweredAsText(fnOut[1], StripBytes(fnArg))

\* C24 amended: the same, the text being the line after its bytes outside
\* ASCII are dropped and the white space around it is stripped; a line empty
\* after that is not answered.
C24_UnrecognizedEchoesDecodedText ==
    FnDone("_dispatch") =>
        /\ AnsweredAsText(fnOut[1], CommandText(fnArg))
        /\ CommandText(fnArg) = <<>> => fnOut[1].kind = "none"

\* a lower-case table command is routed, and a mixed-case unknown word with
\* a byte outside ASCII is echoed without that byte
C24_Witness ==
    /\ FnDone("_dispatch")
    /\ \/ CommandText(fnArg) = LowerBytes(HCOPY_CMD) /\ fnOut[1].route = "HCOPY:DATA?"
       \/ /\ CommandText(fnArg) = <<70, 111>> /\ Len(fnArg) > 3
          /\ fnOut[1].kind = "text"

\* the reader gets a whole line out of the stream: a terminator is there and
\* every byte before it is ASCII
LineRead(stream) ==
    /\ FirstCR(stream) > 0
    /\ \A i \in 1..(FirstCR(stream) - 1) : stream[i] <= 127

\* the bytes before the first terminator
RawLine(stream) == SubSeq(stream, 1, FirstCR(stream) - 1)

\* the positions of a separator in a text
SepPositions(bs, sep) == {i \in 1..Len(bs) : bs[i] = sep}

\* the k-th field of a text, counted from 1: the bytes between the (k-1)-th
\* and the k-th separator
FieldOf(bs, sep, k) ==
    LET S == SepPositions(bs, sep)
        nth(m) == IF m = 0 THEN 0
                  ELSE IF m > Cardinality(S) THEN Len(bs) + 1
                  ELSE CHOOSE i \in S : Cardinality({j \in S : j < i}) = m - 1
    IN  SubSeq(bs, nth(k - 1) + 1, nth(k) - 1)

FieldCount(bs, sep) == Cardinality(SepPositions(bs, sep)) + 1

C26_RangeTestBeforeIO ==
    FnDone("query_measurement") =>
        LET f == fnArg.field
            r == fnOut[1]
            d == NumDigits(IF f < 0 THEN 0 ELSE f)
        IN  /\ (f < 1 \/ f > 12) =>
                  (r.kind = "raise" /\ r.exc = "SystemExit"
                     /\ r.written = <<>> /\ r.consumed = 0)
            /\ (f >= 1 /\ f <= 12) =>
                  /\ SubSeq(r.written, 1, 2) = <<81, 77>>
                  /\ DecimalValue(SubSeq(r.written, 3, 2 + d)) = f
                  /\ \A k \in 3..(2 + d) : IsDigit(r.written[k])
                  /\ SubSeq(r.written, 3 + d, Len(r.written))
                        = (IF fnArg.numeric_only THEN <<COMMA, 86, CR>> ELSE <<CR>>)

\* channel 13 is refused in numeric-only mode although the device would
\* acknowledge
C26_Witness ==
    /\ FnDone("query_measurement")
    /\ fnArg.field = 13 /\ fnArg.numeric_only /\ fnArg.ack = <<DIGIT0, CR>>
    /\ fnOut[1].kind = "raise"

\* query_measurement in non-numeric mode got its ACK and a whole line
TextModeLineRead ==
    /\ FnDone("query_measurement")
    /\ ~fnArg.numeric_only
    /\ fnArg.field >= 1 /\ fnArg.field <= 12
    /\ fnArg.ack = <<DIGIT0, CR>>
    /\ LineRead(fnArg.reply)

C28_ReaderReturnsBytesBeforeCR ==
    FnDone("_read_ascii_line") =>
        LET r == fnOut[1] IN
        /\ FirstCR(fnArg) > 0 =>
              (r.exc = "none" /\ r.line = RawLine(fnArg) /\ r.consumed = FirstCR(fnArg))
        /\ FirstCR(fnArg) = 0 =>
              (r.exc = "AckTimeout" /\ r.line = <<>> /\ r.consumed = Len(fnArg))

\* C28 amended: the reader consumes the bytes up to and including the first
\* terminator, one at a time, and returns the bytes before it decoded as
\* ASCII with the white space around them stripped; a byte outside ASCII
\* before the terminator raises UnicodeDecodeError; a read that returns no
\* byte before the terminator raises AckTimeout and no partial line comes
\* back.
C28_ReaderReturnsStrippedText ==
    FnDone("_read_ascii_line") =>
        LET r == fnOut[1] IN
        /\ LineRead(fnArg) =>
              (r.exc = "none" /\ r.line = StripBytes(RawLine(fnArg))
                 /\ r.consumed = FirstCR(fnArg))
        /\ (FirstCR(fnArg) > 0 /\ ~LineRead(fnArg)) =>
              (r.exc = "UnicodeDecodeError" /\ r.line = <<>> /\ r.consumed = FirstCR(fnArg))
        /\ FirstCR(fnArg) = 0 =>
              (r.exc = "AckTimeout" /\ r.line = <<>> /\ r.consumed = Len(fnArg))

\* a stream that stops after some bytes of a line: the read after them times
\* out
C28_Witness ==
    /\ FnDone("_read_ascii_line")
    /\ FirstCR(fnArg) = 0 /\ Len(fnArg) >= 2
    /\ fnOut[1].exc = "AckTimeout"

\* C29: in the lifetime of one session, a failed and retried open included,
\* one transport is created and opened, and it is closed once, at teardown:
\* no port is closed while the server runs, and when run_scpi_server has
\* returned after an interrupt one port at most was opened and none is open.
C29_OneTransportClosedAtTeardown ==
    /\ pc[Main] # "stopped" => port.state # "closed"
    /\ pc[Main] = "stopped" => (portOpens <= 1 /\ port.state # "open")

\* C30: the server holds one session object: the factory is called once per
\* server, at the latest when serving starts, and every session call of
\* every connection, the lazy open included, runs on that instance.
C30_OneSessionObject ==
    /\ factoryCalls <= 1
    /\ Serving => (factoryCalls = 1 /\ grabber = "grabber")
    /\ \A t \in ServerThreads : InSession(t) => (factoryCalls = 1 /\ grabber = "grabber")

\* after a failed eager open a connection runs the lazy open, and another
\* one has a command waiting for the lock
C30_Witness ==
    /\ factoryCalls = 1 /\ ~opened /\ Serving
    /\ \E t, u \in Conns : pc[t] = "ip_open" /\ pc[u] = "eo_acquire"

-----------------------------------------------------------------------------
(* ScopeGrabber._generate_image, one pass of its loop at a time *)

\* a declared run longer than the image is wide, with a nonzero high byte
LongRunLen == 256

\* n times the byte b
Rep(b, n) == [k \in 1..n |-> b]

\* ESC '*' m lo hi declaring a run of n bytes
Header(n) == <<ESC, STAR, 0, n % 256, n \div 256>>

\* payloads with long runs, empty runs, runs holding CR and ESC, runs in the
\* first, the last and the undrawn line groups, and a header cut short
DecodeFixtures ==
    {<<CR>> \o Header(LongRunLen) \o Rep(1, LongRunLen),
     Header(LongRunLen) \o Rep(1, LongRunLen),
     <<CR>> \o Header(LongRunLen) \o Rep(0, LongRunLen) \o <<CR>> \o Header(1) \o <<128>>,
     Header(0) \o <<CR, CR, 1>>,
     <<CR>> \o Header(0) \o <<1, CR, 1>>,
     <<CR>> \o Header(2) \o <<CR, ESC, CR>>,
     Rep(CR, LINE_LIMIT - 1) \o Header(1) \o <<129>>,
     Rep(CR, LINE_LIMIT) \o Header(1) \o <<255>>,
     Header(1) \o <<255>>,
     <<CR>> \o Header(2) \o <<255>>,
     <<ESC, STAR, 0, 1>>}

DecodeLoop == "_generate_image:loop"

\* the decoder before the first pass of 'while i < len(prn)'
InitDecode ==
    /\ IdleSession
    /\ NoAckCall
    /\ fnName = DecodeLoop
    /\ fnArg \in PrnPayloads \cup DecodeFixtures
    /\ fnOut = <<DecoderStart>>

\* the loop is still running: nothing raised, nothing returned
Decoding == fnName = DecodeLoop /\ Len(fnOut) = 1 /\ fnOut[1].err = "none"

\* a pass in scan mode: ESC and what follows it, CR, or any other byte
DecodeScanPass ==
    /\ Decoding
    /\ MoreBytes(fnArg, fnOut[1].i)
    /\ ~fnOut[1].graphmode
    /\ fnOut' = <<DecodeStep(fnArg, fnOut[1])>>
    /\ UNCHANGED <<fnName, fnArg, ackVars, sessVars, thVars, connVars, histVars>>

\* a pass in bit mode: one data byte
DecodeDataPass ==
    /\ Decoding
    /\ MoreBytes(fnArg, fnOut[1].i)
    /\ fnOut[1].graphmode
    /\ fnOut' = <<DecodeStep(fnArg, fnOut[1])>>
    /\ UNCHANGED <<fnName, fnArg, ackVars, sessVars, thVars, connVars, histVars>>

\* 'return img' once the loop test fails
DecodeReturn ==
    /\ Decoding
    /\ ~MoreBytes(fnArg, fnOut[1].i)
    /\ fnOut' = <<fnOut[1], [NewImage EXCEPT !.fg = fnOut[1].fg]>>
    /\ UNCHANGED <<fnName, fnArg, ackVars, sessVars, thVars, connVars, histVars>>

NextDecode ==
    \/ DecodeScanPass
    \/ DecodeDataPass
    \/ DecodeReturn

SpecDecode == InitDecode /\ [][NextDecode]_vars

\* a pass of the loop is taken from a state in bit mode
DataPassTaken ==
    /\ Decoding /\ fnOut[1].graphmode
    /\ MoreBytes(fnArg, fnOut[1].i)
    /\ fnOut' # fnOut

\* bit j of the data byte the pass consumes is set
DataBit(j) == (At(fnArg, fnOut[1].i) \div (2 ^ j)) % 2 = 1

PassTaken ==
    /\ Decoding
    /\ MoreBytes(fnArg, fnOut[1].i)
    /\ fnOut' # fnOut

\* the pass starts at a complete ESC '*' m lo hi header met in scan mode
AtHeader ==
    /\ ~fnOut[1].graphmode
    /\ fnOut[1].i + 4 < Len(fnArg)
    /\ At(fnArg, fnOut[1].i) = 27
    /\ At(fnArg, fnOut[1].i + 1) = 42

\* N = lo + 256 * hi of the header the pass starts at
RunLength == At(fnArg, fnOut[1].i + 3) + 256 * At(fnArg, fnOut[1].i + 4)

\* C32: after an ESC '*' header with length bytes lo, hi exactly
\* N = lo + 256*hi following bytes are pixel data and the decoder is then
\* back in scan mode, for every N in 0..65535 (N = 0: no data byte at all);
\* the horizontal coordinate is 0 at the first data byte and grows by 1 per
\* data byte; a 0x0D byte advances the line counter only in scan mode.
C32_RunOfDeclaredLength ==
    [][PassTaken =>
          LET s == fnOut[1]
              s2 == fnOut'[1]
          IN /\ AtHeader =>
                  /\ s2.i = s.i + 5 /\ s2.xcoord = 0 /\ s2.line = s.line
                  /\ s2.graphmode = (RunLength > 0)
                  /\ s2.graphmode => s2.graphlen = RunLength
             /\ (s.graphmode /\ s2.err = "none") =>
                  /\ s.graphlen >= 1
                  /\ s2.i = s.i + 1 /\ s2.xcoord = s.xcoord + 1 /\ s2.line = s.line
                  /\ s2.graphlen = s.graphlen - 1
                  /\ s2.graphmode = (s2.graphlen > 0)
             /\ (~s.graphmode /\ s2.err = "none") =>
                  s2.line = (IF At(fnArg, s.i) = 13 THEN s.line + 1 ELSE s.line)]_vars

\* the k-th byte of the stream is a comma right after four digits whose
\* value lies in [1024, 65535]
ValidMarkerAt(stream, k) ==
    /\ k >= 5 /\ k <= Len(stream)
    /\ stream[k] = 44
    /\ \A m \in (k - 4)..(k - 1) : 48 <= stream[m] /\ stream[m] <= 57
    /\ LET n == DigitsValue(SubSeq(stream, k - 4, k - 1)) IN 1024 <= n /\ n <= 65535

\* C33: if the stream holds a comma right after four digits of value n in
\* [1024, 65535], the scan stops at the first such comma, whatever bytes came
\* before it, having read the stream up to that comma and nothing more, and
\* goes on to read n payload bytes.
C33_StopsAtFirstValidMarker ==
    FnDone("wait_for_print_image") =>
        \A k \in 1..Len(fnArg) :
            (ValidMarkerAt(fnArg, k) /\ \A m \in 1..(k - 1) : ~ValidMarkerAt(fnArg, m)) =>
                /\ fnOut[1].exc = "none"
                /\ fnOut[1].to = "wp_payload"
                /\ fnOut[1].consumed = k
                /\ fnOut[1].payload_len = DigitsValue(SubSeq(fnArg, k - 4, k - 1))

\* thread t is inside the initialize_port call of the lazy open
InLazyOpen(t) == t \in Conns /\ op[t] = "initialize_port" /\ pc[t] \in {"ip_open", "send", "ip_baud"}

\* C34: a failed eager open does not keep the server from serving; while the
\* flag is unset every table command attempts the open under the lock and a
\* failed attempt is answered with ERR:OPEN and the message; once an attempt
\* has succeeded no further open is attempted.
C34_OpenRetriedUntilSuccess ==
    [][/\ (pc[Main] = "eager_except" /\ pc'[Main] # "eager_except")
             => (pc'[Main] = "serving" /\ ~opened')
       /\ \A t \in Conns :
            /\ (pc[t] = "readline" /\ pc'[t] \notin {"readline", "closed", "respond"})
                  => pc'[t] = (IF opened THEN "wg_acquire" ELSE "eo_acquire")
            /\ (pc[t] = "eo_acquire" /\ pc'[t] # "eo_acquire" /\ ~opened)
                  => (lock' = t /\ pc'[t] = "ip_open")
            /\ InLazyOpen(t) => lock = t
            /\ (pc[t] = "eo_except" /\ pc'[t] # "eo_except")
                  => /\ pc'[t] = "respond"
                     /\ resp'[t] = <<"ERR:", "OPEN", exc[t]>>
                     /\ lock' = "free" /\ ~opened'
       /\ opened =>
            /\ opened'
            /\ portOpens' = portOpens
            /\ \A t \in ServerThreads : pc'[t] = "ip_open" => pc[t] = "ip_open"]_vars

\* the eager open has failed, one command's lazy open has failed and is about
\* to be answered with ERR:OPEN, and another command's open has succeeded
C34_Witness ==
    /\ pc[Main] = "serving"
    /\ opened
    /\ portOpens = 2
    /\ \E t \in Conns : pc[t] = "respond" /\ Len(resp[t]) = 3 /\ resp[t][2] = "OPEN"

\* thread t is at a 'with self._lock:' and has not entered it yet
WaitsForLock(t) == pc[t] \in {"eo_acquire", "wg_acquire"}

\* the serial call of the thread holding the lock does not return
HolderBlocked == lock \in Conns /\ pc[lock] = "blocked"

\* C35: the lock is never requested by the thread that holds it, and unless
\* the holder's serial call does not return, whenever commands are pending
\* one of them can take a step: with the lock free a waiting command can
\* enter it, with the lock held its holder can go on.
C35_NoDeadlockOnLock ==
    /\ \A t \in Conns : WaitsForLock(t) => lock # t
    /\ lock # "free" => (lock \in Conns /\ ~WaitsForLock(lock))
    /\ ((\E t \in Conns : InCmd(t)) /\ ~HolderBlocked) =>
          /\ \E t \in Conns : InCmd(t) /\ ENABLED (HandlerStep(t) \/ GrabberStep(t))
          /\ lock # "free" => ENABLED (HandlerStep(lock) \/ GrabberStep(lock))
          /\ lock = "free" =>
                \A t \in Conns : WaitsForLock(t) => ENABLED (EoAcquire(t) \/ WgAcquire(t))

\* a command waits at with_grabber's lock after its own lazy open, while
\* another connection's command holds the lock and uses the transport
C35_Witness ==
    /\ pc["c1"] = "wg_acquire" /\ op["c1"] = "initialize_port"
    /\ lock = "c2" /\ pc["c2"] = "read_line"

\* the step is the shutdown of the server closing an open transport
ShutdownCloses ==
    /\ pc[Main] = "serving" /\ pc'[Main] = "stopped"
    /\ port.state = "open" /\ port'.state = "closed"

\* C36: the shutdown does not close the transport while a connection's
\* command holds the lock in the middle of its serial I/O: when the close
\* happens the lock is free and no command is inside a session call.
C36_CloseAfterCommandsFinished ==
    [][ShutdownCloses =>
          /\ lock = "free"
          /\ \A t \in Conns : ~InSession(t)
          /\ ioOwner = "nobody"]_vars

\* C37: for every payload, one ending with ESC or inside an ESC '*' header
\* included, every pass of the decoder reads the payload only at indices
\* below its length, leaves the index strictly greater than it found it, and
\* raises nothing, so that the loop ends and the image is returned.
C37_ReadsInsidePayload ==
    [][PassTaken =>
          LET s == fnOut[1]
              s2 == fnOut'[1]
          IN /\ (~s.graphmode /\ At(fnArg, s.i) = 27) =>
                  /\ s.i + 1 < Len(fnArg)
                  /\ At(fnArg, s.i + 1) = 42 => s.i + 4 < Len(fnArg)
             /\ s.graphmode \/ s2.err = "none"
             /\ s2.i > s.i]_vars

\* C38: every pixel write of the decoder is inside the 240 by 240 grid: the
\* row is in 1..239 and the column, the horizontal coordinate, in 0..239,
\* for every payload, headers declaring more than 240 data bytes included.
C38_WritesInsideGrid ==
    [][DataPassTaken =>
          \A j \in 0..7 :
             (/\ DataBit(j)
              /\ 0 < fnOut[1].line /\ fnOut[1].line < 31
              /\ fnOut[1].line * 8 - j < 240) =>
                 /\ fnOut[1].line * 8 - j \in 1..239
                 /\ fnOut[1].xcoord \in 0..239
                 /\ fnOut'[1].err = "none"]_vars

\* connection t reads a line that is blank, or a command _dispatch does not
\* recognize
ReadsNoTableLine(t) ==
    /\ pc[t] = "readline"
    /\ nLines'[t] # nLines[t]
    /\ nCmd'[t] = nCmd[t] \/ Upper(cmd'[t]) \notin TableCommands

\* connection t has an unrecognized command to answer
AnswersUnrecognized(t) == pc[t] = "respond" /\ Upper(cmd[t]) \notin TableCommands

\* C39: a blank line or an unrecognized command leaves the shared session
\* untouched: reading it and answering it neither takes the lock nor opens
\* the port nor uses the transport, and the answer can be written whoever
\* holds the lock.
C39_NoSessionAccessWithoutTableCommand ==
    [][\A t \in Conns :
          /\ ReadsNoTableLine(t) =>
                /\ UNCHANGED <<sessVars, histVars>>
                /\ IF nCmd'[t] = nCmd[t]
                   THEN pc'[t] = "readline" /\ out'[t] = out[t]
                   ELSE pc'[t] = "respond" /\ resp'[t] = <<"ERR:", "UNRECOGNIZED", cmd'[t]>>
          /\ AnswersUnrecognized(t) => ENABLED Respond(t)
          /\ (AnswersUnrecognized(t) /\ pc'[t] # "respond") =>
                UNCHANGED <<sessVars, histVars>>]_vars

\* an unrecognized command has its response ready to be written while the
\* other connection's command holds the lock in the middle of its exchange
C39_Witness ==
    /\ lock = "c2" /\ pc["c2"] = "read_line" /\ ioOwner = "c2"
    /\ pc["c1"] = "respond" /\ cmd["c1"] = "FOO"
    /\ resp["c1"] = <<"ERR:", "UNRECOGNIZED", "FOO">>

\* C40 as stated: read_binblock applied to the bytes the server sends for a
\* payload p (block header, p, newline) returns exactly p and leaves no byte
\* of that response unread, also when p is empty or holds '#' or newline
\* bytes.
C40_BinblockRoundTrip ==
    FnDone("read_binblock") =>
        /\ fnOut[1].exc = "none"
        /\ fnOut[1].data = fnArg.payload
        /\ fnOut[1].consumed = 2 + NumDigits(Len(fnArg.payload)) + Len(fnArg.payload) + 1

\* C40 amended: read_binblock applied to the bytes the server sends for a
\* payload p returns exactly p, also when p is empty or holds '#' or newline
\* bytes, and takes no byte of what follows the response; it takes the
\* trailing newline too if that byte arrives within the 50 ms the client
\* waits for it, and leaves the newline, and only it, unread if not.
C40_RoundTripNewlineInTime ==
    FnDone("read_binblock") =>
        LET block == 2 + NumDigits(Len(fnArg.payload)) + Len(fnArg.payload) IN
        /\ fnOut[1].exc = "none"
        /\ fnOut[1].data = fnArg.payload
        /\ fnOut[1].consumed = (IF fnArg.in_time THEN block + 1 ELSE block)

\* a payload of newlines with a three-digit length has been read back, with
\* its trailing newline, while the next response was already on the
\* connection
C40_Witness ==
    /\ FnDone("read_binblock")
    /\ Len(fnArg.payload) >= 100 /\ fnArg.payload[1] = 10
    /\ fnArg.next # <<>> /\ fnArg.in_time
    /\ fnOut[1].data = fnArg.payload
    /\ fnOut[1].consumed = Len(fnArg.payload) + 6

====
